---- MODULE Spec2Model ----
(***************************************************************************)
(* Model of the canonical metrics core of ftg-dashboard:                   *)
(*   src/public/metrics_etl.py  calculators, aggregators, MetricsCache     *)
(*   src/public/server.py       api_refresh_metrics, execute_nlq_query,    *)
(*                              the aging views, get_payments_data         *)
(*                                                                         *)
(* Numbers.  Python floats are modelled as integers in fixed point:        *)
(*   money        in cents            (round(x, 2) of a dollar amount)     *)
(*   percentages  in hundredths of 1% (round(x, 2) of a percentage)        *)
(*   round(x, 1)  percentages in tenths of 1%, days in tenths of a day     *)
(* A division followed by round() is RoundDiv (round half to even).        *)
(*                                                                         *)
(* Strings.  Names are sequences of one-character strings so that          *)
(* str.lower(), str.strip(), `in` and startswith are computed.             *)
(*                                                                         *)
(* Raw numeric fields of an extract are <<>> (missing, None or '') or      *)
(* <<n>> (the number n); Float models float(x or 0).                        *)
(*                                                                         *)
(* Pass-through fields that no computation reads (job_description,         *)
(* original_contract, original_cost, invoice dates) are left out of the    *)
(* records; invoice_amount is carried only by the payment rows.            *)
(***************************************************************************)
EXTENDS Integers, Sequences, FiniteSets, TLC

VARIABLES
    input,      \* SpecFn: the arguments a pure function is applied to
    output,     \* SpecFn: its result, NotRun before the call
    plan,       \* SpecQuery: the query plan of the last execute_nlq_query call
    envelope,   \* SpecQuery: the envelope it returned
    files,      \* the three extract files on disk (content and readability)
    cache,      \* the MetricsCache singleton's seven fields
    origin,     \* history: the refresh run that wrote each cache field
    pc,         \* per request thread: position inside api_refresh_metrics
    tmp,        \* per request thread: the value computed but not yet stored
    run,        \* per request thread: the id of its current refresh run
    resp,       \* per request thread: the JSON response of its last call
    before,     \* history: the cache when the thread's current call began
    solo,       \* history: no other refresh overlapped the thread's call
    started,    \* number of refresh runs started so far
    edits,      \* number of times the extract files were rewritten
    rpc,        \* the reading request: its position
    rseen       \* the reading request: origin of each collection it read

vars == <<input, output, plan, envelope, files, cache, origin, pc, tmp, run,
          resp, before, solo, started, edits, rpc, rseen>>

fnVars == <<input, output>>
queryVars == <<plan, envelope>>
cacheVars == <<files, cache, origin, pc, tmp, run, resp, before, solo,
               started, edits, rpc, rseen>>

-----------------------------------------------------------------------------
(* Arithmetic *)

Min(a, b) == IF a <= b THEN a ELSE b

Max(a, b) == IF a >= b THEN a ELSE b

Abs(a) == IF a < 0 THEN -a ELSE a

\* round(n / d) for d > 0, ties to the even neighbour (Python 3 round()).
RoundDiv(n, d) ==
    LET q == n \div d
        r == n % d
    IN  IF 2 * r < d THEN q
        ELSE IF 2 * r > d THEN q + 1
        ELSE IF q % 2 = 0 THEN q ELSE q + 1

\* float(x or 0) of a raw field: missing, None, '' and 0 all give 0.
Float(x) == IF x = <<>> THEN 0 ELSE x[1]

-----------------------------------------------------------------------------
(* Strings as sequences of characters *)

UpperCase == <<"A", "B", "C", "D", "E", "F", "G", "H", "I", "J", "K", "L", "M",
               "N", "O", "P", "Q", "R", "S", "T", "U", "V", "W", "X", "Y", "Z">>

LowerCase == <<"a", "b", "c", "d", "e", "f", "g", "h", "i", "j", "k", "l", "m",
               "n", "o", "p", "q", "r", "s", "t", "u", "v", "w", "x", "y", "z">>

LowerChar(c) ==
    IF \E i \in 1..Len(UpperCase) : UpperCase[i] = c
    THEN LowerCase[CHOOSE i \in 1..Len(UpperCase) : UpperCase[i] = c]
    ELSE c

\* str.lower()
Lower(s) == [i \in 1..Len(s) |-> LowerChar(s[i])]

\* str.strip(): drops leading and trailing blanks
Strip(s) ==
    LET keep == {i \in 1..Len(s) : s[i] # " "}
    IN  IF keep = {} THEN <<>>
        ELSE LET lo == CHOOSE i \in keep : \A j \in keep : i <= j
                 hi == CHOOSE i \in keep : \A j \in keep : i >= j
             IN  SubSeq(s, lo, hi)

\* str.startswith(p)
StartsWith(s, p) == Len(p) <= Len(s) /\ SubSeq(s, 1, Len(p)) = p

\* `needle in hay`
Contains(hay, needle) ==
    \E i \in 1..(Len(hay) - Len(needle) + 1) :
        SubSeq(hay, i, i + Len(needle) - 1) = needle

EXCLUDED_PM == <<"j", "o", "s", "h", " ", "a", "n", "g", "e", "l", "o">>

\* The names the bounded extracts draw from.
NameAl == <<"A", "l">>

NameAlPadded == <<" ", "A", "l", " ">>

NameBo == <<"B", "o">>

NameJosh == <<"J", "o", "s", "h", " ", "A", "n", "g", "e", "l", "o">>

NameNone == <<>>

CustX == <<"X">>

CustY == <<"Y">>

-----------------------------------------------------------------------------
(* Sequence helpers: Python's sum(), list comprehensions, sorted() *)

RECURSIVE SumSeq(_)
SumSeq(s) == IF s = <<>> THEN 0 ELSE s[1] + SumSeq(Tail(s))

\* s[:n] for n >= 0
Take(s, n) == SubSeq(s, 1, Min(n, Len(s)))

\* s[:n] for any integer n (a negative n counts from the end)
Slice(s, n) == IF n >= 0 THEN Take(s, n) ELSE SubSeq(s, 1, Max(Len(s) + n, 0))

\* sorted(s, key=Key, reverse=True) and list.sort(key=Key, reverse=True): the
\* sort is stable, and with reverse=True equal keys keep their original order.
SortDesc(s, Key(_)) ==
    LET rank(i) == 1 + Cardinality({j \in 1..Len(s) :
                        \/ Key(s[j]) > Key(s[i])
                        \/ Key(s[j]) = Key(s[i]) /\ j < i})
    IN  [p \in 1..Len(s) |-> s[CHOOSE i \in 1..Len(s) : rank(i) = p]]

\* sorted(s, key=Key) and list.sort(key=Key, reverse=False)
SortAsc(s, Key(_)) == LET Neg(x) == -Key(x) IN SortDesc(s, Neg)

\* [x for x in s if P(x)]
Filter(s, P(_)) == SelectSeq(s, P)

\* [F(x) for x in s]
Map(s, F(_)) == [i \in 1..Len(s) |-> F(s[i])]

\* The keys of a dict filled by one pass over s, in insertion order.
Keys(s, Key(_)) ==
    LET first(i) == \A j \in 1..(i - 1) : Key(s[j]) # Key(s[i])
        idx == SelectSeq([i \in 1..Len(s) |-> i], first)
    IN  [n \in 1..Len(idx) |-> Key(s[idx[n]])]

-----------------------------------------------------------------------------
(* calculate_job_metrics *)

has_budget_of(budget_cost) == budget_cost > 0

\* Lines 70-75, rounded at line 108: hundredths of a percent.
percent_complete_of(budget_cost, actual_cost) ==
    IF has_budget_of(budget_cost)
    THEN Min(RoundDiv(actual_cost * 10000, budget_cost), 10000)
    ELSE 0

\* Earned revenue held at the contract value.
earned_revenue_capped(budget_cost, contract, actual_cost) ==
    IF has_budget_of(budget_cost)
    THEN Min(RoundDiv(actual_cost * contract, budget_cost), contract)
    ELSE 0

\* Lines 70-75, rounded at line 109: cents, not capped.
earned_revenue_of(budget_cost, contract, actual_cost) ==
    IF has_budget_of(budget_cost)
    THEN RoundDiv(actual_cost * contract, budget_cost)
    ELSE 0

\* Line 77, rounded at line 110 from the unrounded earned revenue.
backlog_of(budget_cost, contract, actual_cost) ==
    IF has_budget_of(budget_cost)
    THEN RoundDiv(contract * budget_cost - actual_cost * contract, budget_cost)
    ELSE contract

\* Line 78, rounded at line 115.
over_under_billing_of(budget_cost, contract, actual_cost, billed) ==
    IF has_budget_of(budget_cost)
    THEN RoundDiv(billed * budget_cost - actual_cost * contract, budget_cost)
    ELSE billed

\* Line 68.
is_closed_of(job_status) == job_status = "C"

\* The profit block with the closed/projected split dropped.
ProfitBlockProjectedOnly(job_status, contract, budget_cost, actual_cost, billed) ==
    [profit           |-> contract - budget_cost,
     margin           |-> IF contract > 0
                          THEN RoundDiv((contract - budget_cost) * 10000, contract)
                          ELSE 0,
     valid_for_profit |-> contract > 0 /\ budget_cost > 0,
     profit_basis     |-> IF is_closed_of(job_status) THEN "actual" ELSE "projected"]

\* Lines 80-93: the profit block.
ProfitBlock(job_status, contract, budget_cost, actual_cost, billed) ==
    IF is_closed_of(job_status)
    THEN [profit           |-> billed - actual_cost,
          margin           |-> IF billed > 0
                               THEN RoundDiv((billed - actual_cost) * 10000, billed)
                               ELSE 0,
          valid_for_profit |-> billed > 0 /\ actual_cost > 0,
          profit_basis     |-> "actual"]
    ELSE [profit           |-> contract - budget_cost,
          margin           |-> IF contract > 0
                               THEN RoundDiv((contract - budget_cost) * 10000, contract)
                               ELSE 0,
          valid_for_profit |-> contract > 0 /\ budget_cost > 0,
          profit_basis     |-> "projected"]

calculate_job_metrics(job, actual_cost, billed) ==
    LET budget_cost == Float(job.revised_cost)
        contract    == Float(job.revised_contract)
        p == ProfitBlock(job.job_status, contract, budget_cost, actual_cost, billed)
    IN  [job_no             |-> job.job_no,
         project_manager    |-> job.project_manager_name,
         customer_name      |-> job.customer_name,
         job_status         |-> job.job_status,
         contract           |-> contract,
         budget_cost        |-> budget_cost,
         actual_cost        |-> actual_cost,
         billed             |-> billed,
         has_budget         |-> has_budget_of(budget_cost),
         percent_complete   |-> percent_complete_of(budget_cost, actual_cost),
         earned_revenue     |-> earned_revenue_of(budget_cost, contract, actual_cost),
         backlog            |-> backlog_of(budget_cost, contract, actual_cost),
         profit             |-> p.profit,
         margin             |-> p.margin,
         valid_for_profit   |-> p.valid_for_profit,
         profit_basis       |-> p.profit_basis,
         over_under_billing |-> over_under_billing_of(budget_cost, contract,
                                                      actual_cost, billed)]

-----------------------------------------------------------------------------
(* run_jobs_etl *)

\* str(a.get('Job_No') or a.get('job_no') or ''): job numbers are strings.
\* Lines 228-232: the actual cost of a job is the sum of its actuals rows.
actual_by_job(actuals, job_no) ==
    SumSeq([i \in 1..Len(actuals) |->
               IF actuals[i].Job_No = job_no THEN Float(actuals[i].Value) ELSE 0])

\* Lines 234-237: the last billed-revenue row of a job wins; 0 when it has none.
billed_by_job(billed_data, job_no) ==
    LET rows == {i \in 1..Len(billed_data) : billed_data[i].Job_No = job_no}
    IN  IF rows = {} THEN 0
        ELSE Float(billed_data[CHOOSE i \in rows : \A j \in rows : j <= i].Billed_Revenue)

run_jobs_etl(jobs_data) ==
    [i \in 1..Len(jobs_data.job_budgets) |->
        LET job == jobs_data.job_budgets[i]
        IN  calculate_job_metrics(job,
                actual_by_job(jobs_data.job_actuals, job.job_no),
                billed_by_job(jobs_data.job_billed_revenue, job.job_no))]

-----------------------------------------------------------------------------
(* aggregate_pm_metrics *)

\* Lines 309-314: the key a job is grouped under; <<>> when the job is skipped.
pm_key(job, exclude_josh) ==
    LET pm == Strip(job.project_manager)
    IN  IF pm = <<>> THEN <<>>
        ELSE IF exclude_josh /\ Contains(Lower(pm), EXCLUDED_PM) THEN <<>>
        ELSE pm

\* Lines 316-352: pm_data[pm] after the loop over job_metrics.
pm_data_of(job_metrics, pm, exclude_josh) ==
    LET mine(j) == pm_key(j, exclude_josh) = pm
        Sum(F(_)) == SumSeq([i \in 1..Len(job_metrics) |->
                        IF mine(job_metrics[i]) THEN F(job_metrics[i]) ELSE 0])
        One(j) == 1
        Active(j) == IF j.job_status = "A" THEN 1 ELSE 0
        Budgeted(j) == IF j.has_budget THEN 1 ELSE 0
        Valid(j) == IF j.valid_for_profit THEN 1 ELSE 0
        Contract(j) == j.contract
        Budget(j) == j.budget_cost
        Actual(j) == j.actual_cost
        Billed(j) == j.billed
        Earned(j) == IF j.has_budget THEN j.earned_revenue ELSE 0
        Backlog(j) == IF j.has_budget THEN j.backlog ELSE 0
        Completion(j) == IF j.has_budget THEN j.percent_complete ELSE 0
        Profit(j) == IF j.valid_for_profit THEN j.profit ELSE 0
        Margin(j) == IF j.valid_for_profit THEN j.margin ELSE 0
    IN  [project_manager       |-> pm,
         total_jobs            |-> Sum(One),
         active_jobs           |-> Sum(Active),
         jobs_with_budget      |-> Sum(Budgeted),
         jobs_valid_for_profit |-> Sum(Valid),
         total_contract        |-> Sum(Contract),
         total_budget          |-> Sum(Budget),
         total_actual          |-> Sum(Actual),
         total_billed          |-> Sum(Billed),
         total_earned_revenue  |-> Sum(Earned),
         total_backlog         |-> Sum(Backlog),
         total_profit          |-> Sum(Profit),
         margin_sum            |-> Sum(Margin),
         completion_sum        |-> Sum(Completion)]

pm_avg_margin_by_total_jobs(data) ==
    IF data.total_jobs > 0 THEN RoundDiv(data.margin_sum, data.total_jobs) ELSE 0

\* Line 358, rounded at line 374.
pm_avg_margin(data) ==
    IF data.jobs_valid_for_profit > 0
    THEN RoundDiv(data.margin_sum, data.jobs_valid_for_profit)
    ELSE 0

\* Line 359, rounded at line 375.
pm_avg_completion(data) ==
    IF data.jobs_with_budget > 0
    THEN RoundDiv(data.completion_sum, data.jobs_with_budget)
    ELSE 0

\* Lines 361-376.
pm_row(data) ==
    [project_manager       |-> data.project_manager,
     total_jobs            |-> data.total_jobs,
     active_jobs           |-> data.active_jobs,
     jobs_with_budget      |-> data.jobs_with_budget,
     jobs_valid_for_profit |-> data.jobs_valid_for_profit,
     total_contract        |-> data.total_contract,
     total_budget          |-> data.total_budget,
     total_actual          |-> data.total_actual,
     total_billed          |-> data.total_billed,
     total_earned_revenue  |-> data.total_earned_revenue,
     total_backlog         |-> data.total_backlog,
     total_profit          |-> data.total_profit,
     avg_margin            |-> pm_avg_margin(data),
     avg_completion        |-> pm_avg_completion(data)]

aggregate_pm_metrics(job_metrics, exclude_josh) ==
    LET Key(j) == pm_key(j, exclude_josh)
        Kept(j) == Key(j) # <<>>
        names == Keys(Filter(job_metrics, Kept), Key)
        results == [i \in 1..Len(names) |->
                       pm_row(pm_data_of(job_metrics, names[i], exclude_josh))]
        TotalContract(r) == r.total_contract
    IN  SortDesc(results, TotalContract)

-----------------------------------------------------------------------------
(* get_jobs_summary *)

get_jobs_summary(job_metrics, active_only) ==
    LET IsActive(j) == j.job_status = "A"
        HasBudget(j) == j.has_budget
        IsValid(j) == j.valid_for_profit
        jobs == IF active_only THEN Filter(job_metrics, IsActive) ELSE job_metrics
        jobs_with_budget == Filter(jobs, HasBudget)
        jobs_valid_for_profit == Filter(jobs, IsValid)
        Contract(j) == j.contract
        Budget(j) == j.budget_cost
        Actual(j) == j.actual_cost
        Billed(j) == j.billed
        Earned(j) == j.earned_revenue
        Backlog(j) == j.backlog
        Profit(j) == j.profit
        Margin(j) == j.margin
        Completion(j) == j.percent_complete
    IN  [total_jobs            |-> Len(jobs),
         jobs_with_budget      |-> Len(jobs_with_budget),
         jobs_without_budget   |-> Len(jobs) - Len(jobs_with_budget),
         jobs_valid_for_profit |-> Len(jobs_valid_for_profit),
         total_contract        |-> SumSeq(Map(jobs, Contract)),
         total_budget          |-> SumSeq(Map(jobs, Budget)),
         total_actual          |-> SumSeq(Map(jobs, Actual)),
         total_billed          |-> SumSeq(Map(jobs, Billed)),
         total_earned_revenue  |-> SumSeq(Map(jobs_with_budget, Earned)),
         total_backlog         |-> SumSeq(Map(jobs_with_budget, Backlog)),
         total_profit          |-> SumSeq(Map(jobs_valid_for_profit, Profit)),
         avg_margin            |-> IF jobs_valid_for_profit # <<>>
                                   THEN RoundDiv(SumSeq(Map(jobs_valid_for_profit, Margin)),
                                                 Len(jobs_valid_for_profit))
                                   ELSE 0,
         avg_completion        |-> IF jobs_with_budget # <<>>
                                   THEN RoundDiv(SumSeq(Map(jobs_with_budget, Completion)),
                                                 Len(jobs_with_budget))
                                   ELSE 0]

-----------------------------------------------------------------------------
(* calculate_ar_invoice_metrics, calculate_ap_invoice_metrics *)

\* int(float(x or 0)) of a raw days_outstanding given in tenths of a day:
\* int() truncates toward zero.
IntDays(x) ==
    LET t == Float(x)
    IN  IF t >= 0 THEN t \div 10 ELSE -((-t) \div 10)

\* The buckets with each boundary day moved to the older bucket.
aging_bucket_exclusive(days) ==
    IF days < 30 THEN "current"
    ELSE IF days < 60 THEN "days_31_60"
    ELSE IF days < 90 THEN "days_61_90"
    ELSE "days_90_plus"

\* Lines 139-146 and 190-197.
aging_bucket_of(days) ==
    IF days <= 30 THEN "current"
    ELSE IF days <= 60 THEN "days_31_60"
    ELSE IF days <= 90 THEN "days_61_90"
    ELSE "days_90_plus"

\* None is modelled as the record NoRecord.
NoRecord == [excluded |-> TRUE]

\* The AR calculator dropping only the invoices with exactly nothing due.
calculate_ar_invoice_metrics_keeping_credits(invoice) ==
    LET calc_due    == Float(invoice.calculated_amount_due)
        retainage   == Float(invoice.retainage_amount)
        collectible == Max(0, calc_due - retainage)
        days        == IntDays(invoice.days_outstanding)
    IN  IF calc_due = 0 THEN NoRecord
        ELSE [invoice_no            |-> invoice.invoice_no,
              customer_name         |-> Strip(invoice.customer_name),
              project_manager       |-> Strip(invoice.project_manager_name),
              job_no                |-> invoice.job_no,
              calculated_amount_due |-> calc_due,
              retainage             |-> retainage,
              collectible           |-> collectible,
              days_outstanding      |-> days,
              aging_bucket          |-> aging_bucket_of(days),
              total_due             |-> collectible + retainage]

calculate_ar_invoice_metrics(invoice) ==
    LET calc_due    == Float(invoice.calculated_amount_due)
        retainage   == Float(invoice.retainage_amount)
        collectible == Max(0, calc_due - retainage)
        days        == IntDays(invoice.days_outstanding)
    IN  IF calc_due <= 0 THEN NoRecord
        ELSE [invoice_no            |-> invoice.invoice_no,
              customer_name         |-> Strip(invoice.customer_name),
              project_manager       |-> Strip(invoice.project_manager_name),
              job_no                |-> invoice.job_no,
              calculated_amount_due |-> calc_due,
              retainage             |-> retainage,
              collectible           |-> collectible,
              days_outstanding      |-> days,
              aging_bucket          |-> aging_bucket_of(days),
              total_due             |-> collectible + retainage]

EXCLUDED_AP_VENDORS ==
    { <<"F","T","G"," ","B","u","i","l","d","e","r","s"," ","L","L","C">>,
      <<"F","T","G"," ","B","u","i","l","d","e","r","s",","," ","L","L","C">>,
      <<"F","T","G"," ","B","u","i","l","d","e","r","s">>,
      <<"F","T","G"," ","B","U","I","L","D","E","R","S"," ","L","L","C">> }

\* The AP calculator comparing the vendor name as extracted, untrimmed.
calculate_ap_invoice_metrics_untrimmed(invoice) ==
    LET remaining     == Float(invoice.remaining_balance)
        vendor        == Strip(invoice.vendor_name)
        retainage     == Float(invoice.retainage_amount)
        amount_ex_ret == IF retainage > 0 THEN remaining - retainage ELSE remaining
        days          == IntDays(invoice.days_outstanding)
    IN  IF remaining <= 0 THEN NoRecord
        ELSE IF invoice.vendor_name \in EXCLUDED_AP_VENDORS THEN NoRecord
        ELSE [invoice_no          |-> invoice.invoice_no,
              vendor_name         |-> vendor,
              project_manager     |-> Strip(invoice.project_manager_name),
              job_no              |-> invoice.job_no,
              remaining_balance   |-> remaining,
              retainage           |-> retainage,
              amount_ex_retainage |-> amount_ex_ret,
              days_outstanding    |-> days,
              aging_bucket        |-> aging_bucket_of(days)]

calculate_ap_invoice_metrics(invoice) ==
    LET remaining     == Float(invoice.remaining_balance)
        vendor        == Strip(invoice.vendor_name)
        retainage     == Float(invoice.retainage_amount)
        amount_ex_ret == IF retainage > 0 THEN remaining - retainage ELSE remaining
        days          == IntDays(invoice.days_outstanding)
    IN  IF remaining <= 0 THEN NoRecord
        ELSE IF vendor \in EXCLUDED_AP_VENDORS THEN NoRecord
        ELSE [invoice_no          |-> invoice.invoice_no,
              vendor_name         |-> vendor,
              project_manager     |-> Strip(invoice.project_manager_name),
              job_no              |-> invoice.job_no,
              remaining_balance   |-> remaining,
              retainage           |-> retainage,
              amount_ex_retainage |-> amount_ex_ret,
              days_outstanding    |-> days,
              aging_bucket        |-> aging_bucket_of(days)]

\* Lines 261-267: `if metrics:` keeps every record that is not None.
run_ar_etl(ar_data) ==
    LET Produced(m) == m # NoRecord
    IN  Filter(Map(ar_data.invoices, calculate_ar_invoice_metrics), Produced)

\* Lines 280-286.
run_ap_etl(ap_data) ==
    LET Produced(m) == m # NoRecord
    IN  Filter(Map(ap_data.invoices, calculate_ap_invoice_metrics), Produced)

-----------------------------------------------------------------------------
(* aggregate_ar_by_customer, aggregate_ap_by_vendor *)

UnknownCustomer == <<"U","n","k","n","o","w","n"," ","C","u","s","t","o","m","e","r">>

UnknownVendor == <<"U","n","k","n","o","w","n"," ","V","e","n","d","o","r">>

\* Line 394.
customer_key(inv) ==
    IF inv.customer_name # <<>> THEN inv.customer_name ELSE UnknownCustomer

\* Line 450.
vendor_key(inv) ==
    IF inv.vendor_name # <<>> THEN inv.vendor_name ELSE UnknownVendor

\* Lines 396-432: one customer's row. avg_days_outstanding is in tenths of a day.
customer_row(ar_metrics, customer) ==
    LET Sum(F(_)) == SumSeq([i \in 1..Len(ar_metrics) |->
                        IF customer_key(ar_metrics[i]) = customer
                        THEN F(ar_metrics[i]) ELSE 0])
        One(inv) == 1
        Due(inv) == inv.total_due
        Coll(inv) == inv.collectible
        Ret(inv) == inv.retainage
        Cur(inv) == IF inv.aging_bucket = "current" THEN inv.collectible ELSE 0
        B31(inv) == IF inv.aging_bucket = "days_31_60" THEN inv.collectible ELSE 0
        B61(inv) == IF inv.aging_bucket = "days_61_90" THEN inv.collectible ELSE 0
        B90(inv) == IF inv.aging_bucket = "days_90_plus" THEN inv.collectible ELSE 0
        Weighted(inv) == inv.collectible * inv.days_outstanding
    IN  [customer_name        |-> customer,
         invoice_count        |-> Sum(One),
         total_due            |-> Sum(Due),
         collectible          |-> Sum(Coll),
         retainage            |-> Sum(Ret),
         current              |-> Sum(Cur),
         days_31_60           |-> Sum(B31),
         days_61_90           |-> Sum(B61),
         days_90_plus         |-> Sum(B90),
         avg_days_outstanding |-> IF Sum(Coll) > 0
                                  THEN RoundDiv(Sum(Weighted) * 10, Sum(Coll))
                                  ELSE 0]

aggregate_ar_by_customer(ar_metrics) ==
    LET names == Keys(ar_metrics, customer_key)
        results == [i \in 1..Len(names) |-> customer_row(ar_metrics, names[i])]
        TotalDue(r) == r.total_due
    IN  SortDesc(results, TotalDue)

\* Lines 452-486: one vendor's row.
vendor_row(ap_metrics, vendor) ==
    LET Sum(F(_)) == SumSeq([i \in 1..Len(ap_metrics) |->
                        IF vendor_key(ap_metrics[i]) = vendor
                        THEN F(ap_metrics[i]) ELSE 0])
        One(inv) == 1
        Due(inv) == inv.remaining_balance
        Ret(inv) == inv.retainage
        Cur(inv) == IF inv.aging_bucket = "current" THEN inv.amount_ex_retainage ELSE 0
        B31(inv) == IF inv.aging_bucket = "days_31_60" THEN inv.amount_ex_retainage ELSE 0
        B61(inv) == IF inv.aging_bucket = "days_61_90" THEN inv.amount_ex_retainage ELSE 0
        B90(inv) == IF inv.aging_bucket = "days_90_plus" THEN inv.amount_ex_retainage ELSE 0
        Weighted(inv) == inv.amount_ex_retainage * inv.days_outstanding
        amount_ex_ret == Sum(Due) - Sum(Ret)
    IN  [vendor_name          |-> vendor,
         invoice_count        |-> Sum(One),
         total_due            |-> Sum(Due),
         retainage            |-> Sum(Ret),
         current              |-> Sum(Cur),
         days_31_60           |-> Sum(B31),
         days_61_90           |-> Sum(B61),
         days_90_plus         |-> Sum(B90),
         avg_days_outstanding |-> IF amount_ex_ret > 0
                                  THEN RoundDiv(Sum(Weighted) * 10, amount_ex_ret)
                                  ELSE 0]

\* The vendor aggregator with its rows left in the order of the dict.
aggregate_ap_by_vendor_unsorted(ap_metrics) ==
    LET names == Keys(ap_metrics, vendor_key)
    IN  [i \in 1..Len(names) |-> vendor_row(ap_metrics, names[i])]

aggregate_ap_by_vendor(ap_metrics) ==
    LET names == Keys(ap_metrics, vendor_key)
        results == [i \in 1..Len(names) |-> vendor_row(ap_metrics, names[i])]
        TotalDue(r) == r.total_due
    IN  SortDesc(results, TotalDue)

-----------------------------------------------------------------------------
(* get_ar_summary, get_ap_summary *)

\* Lines 491-514. avg_days_outstanding is in tenths of a day.
get_ar_summary(ar_metrics) ==
    LET Due(inv) == inv.total_due
        Coll(inv) == inv.collectible
        Ret(inv) == inv.retainage
        Weighted(inv) == inv.collectible * inv.days_outstanding
        InBucket(b) == [i \in 1..Len(ar_metrics) |->
                           IF ar_metrics[i].aging_bucket = b
                           THEN ar_metrics[i].collectible ELSE 0]
        collectible == SumSeq(Map(ar_metrics, Coll))
        weighted_days == SumSeq(Map(ar_metrics, Weighted))
    IN  [total_invoices       |-> Len(ar_metrics),
         total_due            |-> SumSeq(Map(ar_metrics, Due)),
         collectible          |-> collectible,
         retainage            |-> SumSeq(Map(ar_metrics, Ret)),
         current              |-> SumSeq(InBucket("current")),
         days_31_60           |-> SumSeq(InBucket("days_31_60")),
         days_61_90           |-> SumSeq(InBucket("days_61_90")),
         days_90_plus         |-> SumSeq(InBucket("days_90_plus")),
         avg_days_outstanding |-> IF collectible > 0
                                  THEN RoundDiv(weighted_days * 10, collectible)
                                  ELSE 0]

\* Lines 517-539.
get_ap_summary(ap_metrics) ==
    LET Due(inv) == inv.remaining_balance
        Ret(inv) == inv.retainage
        Weighted(inv) == inv.amount_ex_retainage * inv.days_outstanding
        InBucket(b) == [i \in 1..Len(ap_metrics) |->
                           IF ap_metrics[i].aging_bucket = b
                           THEN ap_metrics[i].amount_ex_retainage ELSE 0]
        total_due == SumSeq(Map(ap_metrics, Due))
        retainage == SumSeq(Map(ap_metrics, Ret))
        amount_ex_ret == total_due - retainage
        weighted_days == SumSeq(Map(ap_metrics, Weighted))
    IN  [total_invoices       |-> Len(ap_metrics),
         total_due            |-> total_due,
         retainage            |-> retainage,
         current              |-> SumSeq(InBucket("current")),
         days_31_60           |-> SumSeq(InBucket("days_31_60")),
         days_61_90           |-> SumSeq(InBucket("days_61_90")),
         days_90_plus         |-> SumSeq(InBucket("days_90_plus")),
         avg_days_outstanding |-> IF amount_ex_ret > 0
                                  THEN RoundDiv(weighted_days * 10, amount_ex_ret)
                                  ELSE 0]

-----------------------------------------------------------------------------
(* float() on a raw field that holds text *)

\* A raw numeric field is <<>> (missing, None or ''), <<n>> (a number or a
\* numeric string) or text that is no number, held as its characters.
NonNumeric == <<"N", "/", "A">>

\* float(x or 0) raises ValueError when x is a string that is no number.
float_raises(x) == Len(x) > 1

\* Lines 60-63: the conversions calculate_job_metrics makes of the job's fields.
calculate_job_metrics_raises(job) ==
    float_raises(job.revised_cost) \/ float_raises(job.revised_contract)

\* Lines 130-137: the amount due is converted first; an invoice with nothing
\* due returns None before its other fields are converted.
calculate_ar_invoice_metrics_raises(invoice) ==
    \/ float_raises(invoice.calculated_amount_due)
    \/ /\ Float(invoice.calculated_amount_due) > 0
       /\ \/ float_raises(invoice.retainage_amount)
          \/ float_raises(invoice.days_outstanding)

\* Lines 177-188: a paid invoice or an excluded vendor returns None before the
\* retainage and the days are converted.
calculate_ap_invoice_metrics_raises(invoice) ==
    \/ float_raises(invoice.remaining_balance)
    \/ /\ Float(invoice.remaining_balance) > 0
       /\ Strip(invoice.vendor_name) \notin EXCLUDED_AP_VENDORS
       /\ \/ float_raises(invoice.retainage_amount)
          \/ float_raises(invoice.days_outstanding)

\* Lines 228-246: a conversion that raises ends run_jobs_etl.
run_jobs_etl_raises(jobs_data) ==
    \/ \E i \in 1..Len(jobs_data.job_actuals) :
          float_raises(jobs_data.job_actuals[i].Value)
    \/ \E i \in 1..Len(jobs_data.job_billed_revenue) :
          float_raises(jobs_data.job_billed_revenue[i].Billed_Revenue)
    \/ \E i \in 1..Len(jobs_data.job_budgets) :
          calculate_job_metrics_raises(jobs_data.job_budgets[i])

\* Lines 261-265.
run_ar_etl_raises(ar_data) ==
    \E i \in 1..Len(ar_data.invoices) :
        calculate_ar_invoice_metrics_raises(ar_data.invoices[i])

\* Lines 280-284.
run_ap_etl_raises(ap_data) ==
    \E i \in 1..Len(ap_data.invoices) :
        calculate_ap_invoice_metrics_raises(ap_data.invoices[i])

-----------------------------------------------------------------------------
(* Bounded extracts *)

\* The most job rows an extract holds.
MaxJobs == 3

RawJob(no, pm, cust, status, contract, cost) ==
    [job_no |-> no, project_manager_name |-> pm, customer_name |-> cust,
     job_status |-> status, revised_contract |-> contract, revised_cost |-> cost]

\* The job rows extracts are built from: two valid projected jobs of one PM
\* (margins 10% and 30%), a job of his without a budget, a closed job, a job of
\* the excluded PM, a padded PM name with a cost overrun, and a job with no PM.
JobPool ==
    << RawJob("J1", NameAl,       CustX, "A", <<1000>>, <<900>>),
       RawJob("J2", NameAl,       CustY, "A", <<1000>>, <<700>>),
       RawJob("J3", NameAl,       CustX, "A", <<400>>,  <<>>),
       RawJob("J4", NameBo,       CustX, "C", <<2000>>, <<1500>>),
       RawJob("J5", NameJosh,     CustY, "A", <<3000>>, <<2000>>),
       RawJob("J6", NameAlPadded, CustY, "I", <<500>>,  <<600>>),
       RawJob("J7", NameNone,     CustX, "O", <<0>>,    <<100>>) >>

\* job_actuals: many rows per job, summed by job number.
ActualsTable ==
    << [Job_No |-> "J1", Cost_Code_No |-> "100", Value |-> <<400>>],
       [Job_No |-> "J1", Cost_Code_No |-> "200", Value |-> <<50>>],
       [Job_No |-> "J2", Cost_Code_No |-> "100", Value |-> <<700>>],
       [Job_No |-> "J3", Cost_Code_No |-> "300", Value |-> <<10>>],
       [Job_No |-> "J4", Cost_Code_No |-> "200", Value |-> <<950>>],
       [Job_No |-> "J5", Cost_Code_No |-> "100", Value |-> <<1000>>],
       [Job_No |-> "J6", Cost_Code_No |-> "300", Value |-> <<900>>],
       [Job_No |-> "J6", Cost_Code_No |-> "100", Value |-> <<>>] >>

\* job_billed_revenue: one row per job.
BilledTable ==
    << [Job_No |-> "J1", Billed_Revenue |-> <<500>>],
       [Job_No |-> "J2", Billed_Revenue |-> <<1000>>],
       [Job_No |-> "J4", Billed_Revenue |-> <<900>>],
       [Job_No |-> "J5", Billed_Revenue |-> <<>>],
       [Job_No |-> "J6", Billed_Revenue |-> <<450>>] >>

\* Lists of at most n distinct rows of a pool, in any order.
Picks(pool, n) ==
    LET idx == UNION {[1..k -> 1..Len(pool)] : k \in 0..n}
        distinct == {f \in idx : \A i, j \in DOMAIN f : i # j => f[i] # f[j]}
    IN  {[i \in DOMAIN f |-> pool[f[i]]] : f \in distinct}

JobsData(budgets) ==
    [job_budgets |-> budgets, job_actuals |-> ActualsTable,
     job_billed_revenue |-> BilledTable]

JobExtracts == {JobsData(b) : b \in Picks(JobPool, MaxJobs)}

RawAr(no, cust, pm, job, due, ret, days) ==
    [invoice_no |-> no, customer_name |-> cust, project_manager_name |-> pm,
     job_no |-> job, calculated_amount_due |-> due, retainage_amount |-> ret,
     days_outstanding |-> days]

RawAp(no, vendor, pm, job, remaining, ret, days) ==
    [invoice_no |-> no, vendor_name |-> vendor, project_manager_name |-> pm,
     job_no |-> job, remaining_balance |-> remaining, retainage_amount |-> ret,
     days_outstanding |-> days]

CustXPadded == <<" ", "X">>

VendV == <<"V">>

VendW == <<"W">>

VendInternalPadded ==
    <<" ","F","T","G"," ","B","u","i","l","d","e","r","s"," ","L","L","C"," ">>

\* An excluded vendor's name in another case.
VendNearInternal == <<"F","T","G"," ","b","u","i","l","d","e","r","s">>

\* The AR rows extracts are built from (days in tenths of a day): 30 days with
\* retainage, 31.5 days, retainage above the amount due at 91 days for the
\* excluded PM, a paid invoice, and an invoice with no customer and no days.
ArPool ==
    << RawAr("I1", CustX,       NameAl,   "J1", <<500>>, <<100>>, <<300>>),
       RawAr("I2", CustY,       NameBo,   "J4", <<800>>, <<>>,    <<315>>),
       RawAr("I3", CustXPadded, NameJosh, "J5", <<300>>, <<400>>, <<910>>),
       RawAr("I4", CustY,       NameAl,   "J2", <<0>>,   <<>>,    <<100>>),
       RawAr("I5", NameNone,    NameAl,   "J1", <<200>>, <<>>,    <<>>) >>

\* The AP rows extracts are built from: a plain invoice, one with retainage, an
\* internal vendor with a balance, a paid invoice, and an old invoice.
ApPool ==
    << RawAp("P1", VendV,              NameAl, "J1", <<600>>,  <<>>,    <<100>>),
       RawAp("P2", VendW,              NameBo, "J4", <<900>>,  <<100>>, <<650>>),
       RawAp("P3", VendInternalPadded, NameAl, "J1", <<5000>>, <<>>,    <<200>>),
       RawAp("P4", VendV,              NameAl, "J2", <<0>>,    <<>>,    <<400>>),
       RawAp("P5", VendV,              NameBo, "J4", <<300>>,  <<>>,    <<950>>) >>

\* The most invoice rows an AR or AP extract holds.
MaxInvoices == 2

ArExtracts == {[invoices |-> s] : s \in Picks(ArPool, MaxInvoices)}

ApExtracts == {[invoices |-> s] : s \in Picks(ApPool, MaxInvoices)}

-----------------------------------------------------------------------------
(* SpecFn: the pure functions applied to bounded inputs *)

NotRun == [fn |-> "none"]

CalcJobInputs ==
    [fn : {"calculate_job_metrics"},
     job : {RawJob("J1", NameAl, CustX, s, c, b) :
                s \in {"A", "C", "I", "O"},
                c \in {<<>>, <<0>>, <<-50>>, <<1000>>, <<300>>},
                b \in {<<>>, <<0>>, <<800>>, <<70>>}},
     actual_cost : {0, 400, 950, 1200},
     billed : {0, 7, 900, 1500}]

AggregatePmInputs == [fn : {"aggregate_pm_metrics"}, jobs_data : JobExtracts]

JobsSummaryInputs ==
    [fn : {"get_jobs_summary"}, jobs_data : JobExtracts, active_only : BOOLEAN]

\* Raw ages in tenths of a day: none, 0, -5.5, and both sides of 30, 60 and 90.
DayChoices ==
    {<<>>, <<0>>, <<-55>>, <<300>>, <<309>>, <<310>>, <<600>>, <<610>>,
     <<900>>, <<910>>}

ArInvoiceInputs ==
    [fn : {"calculate_ar_invoice_metrics"},
     invoice : {RawAr("I1", c, NameAl, "J1", due, ret, days) :
                   c \in {CustXPadded, NameNone},
                   due \in {<<>>, <<0>>, <<-100>>, <<500>>},
                   ret \in {<<>>, <<100>>, <<600>>, <<-100>>},
                   days \in DayChoices}]

ApInvoiceInputs ==
    [fn : {"calculate_ap_invoice_metrics"},
     invoice : {RawAp("P1", v, NameAl, "J1", remaining, ret, days) :
                   v \in {VendV, VendInternalPadded, VendNearInternal, NameNone},
                   remaining \in {<<>>, <<0>>, <<-100>>, <<500>>},
                   ret \in {<<>>, <<100>>, <<600>>, <<-100>>},
                   days \in DayChoices}]

\* The variables another specification uses, at rest.
ParkedFn == input = NotRun /\ output = NotRun

ParkedQuery == plan = NotRun /\ envelope = NotRun

ParkedCache ==
    /\ files = <<>> /\ cache = <<>> /\ origin = <<>> /\ pc = <<>> /\ tmp = <<>>
    /\ run = <<>> /\ resp = <<>> /\ before = <<>> /\ solo = <<>>
    /\ started = 0 /\ edits = 0 /\ rpc = "idle" /\ rseen = <<>>

InitFn ==
    /\ input \in CalcJobInputs \cup AggregatePmInputs \cup JobsSummaryInputs
                  \cup ArInvoiceInputs \cup ApInvoiceInputs
    /\ output = NotRun
    /\ ParkedQuery
    /\ ParkedCache

ApplyCalculateJobMetrics ==
    /\ input.fn = "calculate_job_metrics"
    /\ output = NotRun
    /\ output' = [fn |-> input.fn,
                  result |-> calculate_job_metrics(input.job, input.actual_cost,
                                                   input.billed)]
    /\ UNCHANGED <<input, queryVars, cacheVars>>

ApplyAggregatePmMetrics ==
    /\ input.fn = "aggregate_pm_metrics"
    /\ output = NotRun
    /\ output' = [fn |-> input.fn,
                  job_metrics |-> run_jobs_etl(input.jobs_data),
                  result |-> aggregate_pm_metrics(run_jobs_etl(input.jobs_data), TRUE)]
    /\ UNCHANGED <<input, queryVars, cacheVars>>

ApplyGetJobsSummary ==
    /\ input.fn = "get_jobs_summary"
    /\ output = NotRun
    /\ output' = [fn |-> input.fn,
                  job_metrics |-> run_jobs_etl(input.jobs_data),
                  result |-> get_jobs_summary(run_jobs_etl(input.jobs_data),
                                              input.active_only)]
    /\ UNCHANGED <<input, queryVars, cacheVars>>

ApplyCalculateArInvoiceMetrics ==
    /\ input.fn = "calculate_ar_invoice_metrics"
    /\ output = NotRun
    /\ output' = [fn |-> input.fn,
                  result |-> calculate_ar_invoice_metrics(input.invoice)]
    /\ UNCHANGED <<input, queryVars, cacheVars>>

ApplyCalculateApInvoiceMetrics ==
    /\ input.fn = "calculate_ap_invoice_metrics"
    /\ output = NotRun
    /\ output' = [fn |-> input.fn,
                  result |-> calculate_ap_invoice_metrics(input.invoice)]
    /\ UNCHANGED <<input, queryVars, cacheVars>>

NextFn ==
    \/ ApplyCalculateJobMetrics
    \/ ApplyAggregatePmMetrics
    \/ ApplyGetJobsSummary
    \/ ApplyCalculateArInvoiceMetrics
    \/ ApplyCalculateApInvoiceMetrics

SpecFn == InitFn /\ [][NextFn]_vars

-----------------------------------------------------------------------------
(* MetricsCache and api_refresh_metrics under concurrent requests *)

Fields == {"jobs_metrics", "ar_metrics", "ap_metrics", "pm_metrics",
           "ar_by_customer", "ap_by_vendor", "last_refresh"}

\* The request threads of the server.
Threads == {1, 2}

\* The most refresh requests made after startup.
MaxRuns == 2

\* The most times the extract files are rewritten.
MaxEdits == 1

\* MetricsCache.__init__
EmptyCache ==
    [jobs_metrics |-> <<>>, ar_metrics |-> <<>>, ap_metrics |-> <<>>,
     pm_metrics |-> <<>>, ar_by_customer |-> <<>>, ap_by_vendor |-> <<>>,
     last_refresh |-> -1]

\* What a refresh that nothing interrupts leaves in the cache. last_refresh is
\* the id of the run that took the timestamp: distinct runs, distinct times.
Snapshot(f, id) ==
    LET jobs == run_jobs_etl(f.jobs.data)
        ar   == run_ar_etl(f.ar.data)
        ap   == run_ap_etl(f.ap.data)
    IN  [jobs_metrics   |-> jobs,
         ar_metrics     |-> ar,
         ap_metrics     |-> ap,
         pm_metrics     |-> aggregate_pm_metrics(jobs, TRUE),
         ar_by_customer |-> aggregate_ar_by_customer(ar),
         ap_by_vendor   |-> aggregate_ap_by_vendor(ap),
         last_refresh   |-> id]

\* The three extract files: content, and whether load_json_file can read it.
Files(jobs, ar, ap, broken) ==
    [jobs |-> [ok |-> broken # "jobs", data |-> jobs],
     ar   |-> [ok |-> broken # "ar",   data |-> ar],
     ap   |-> [ok |-> broken # "ap",   data |-> ap]]

\* Two generations of the extracts.
ExtractV1 ==
    [jobs |-> JobsData(<<JobPool[1]>>),
     ar   |-> [invoices |-> <<ArPool[1]>>],
     ap   |-> [invoices |-> <<ApPool[1]>>]]

ExtractV2 ==
    [jobs |-> JobsData(<<JobPool[1], JobPool[4]>>),
     ar   |-> [invoices |-> <<ArPool[1], ArPool[2]>>],
     ap   |-> [invoices |-> <<ApPool[1], ApPool[2]>>]]

\* What the loader can leave on disk: the next generation, with at most one
\* of the three files unreadable.
FileStates ==
    {Files(ExtractV2.jobs, ExtractV2.ar, ExtractV2.ap, broken) :
        broken \in {"none", "jobs", "ar", "ap"}}

NoResponse == [status |-> "none"]

\* server.py line 380: init_metrics() has run once, alone, before any request.
Init ==
    /\ files = Files(ExtractV1.jobs, ExtractV1.ar, ExtractV1.ap, "none")
    /\ cache = Snapshot(files, 0)
    /\ origin = [f \in Fields |-> 0]
    /\ pc = [t \in Threads |-> "idle"]
    /\ tmp = [t \in Threads |-> <<>>]
    /\ run = [t \in Threads |-> 0]
    /\ resp = [t \in Threads |-> NoResponse]
    /\ before = [t \in Threads |-> EmptyCache]
    /\ solo = [t \in Threads |-> TRUE]
    /\ started = 0
    /\ edits = 0
    /\ rpc = "idle"
    /\ rseen = <<>>
    /\ ParkedFn
    /\ ParkedQuery

\* The external loader rewrites the extract files, or leaves one unreadable.
RewriteExtracts ==
    /\ edits < MaxEdits
    /\ edits' = edits + 1
    /\ files' \in FileStates \ {files}
    /\ UNCHANGED <<cache, origin, pc, tmp, run, resp, before, solo, started,
                   rpc, rseen, fnVars, queryVars>>

\* POST /api/metrics/refresh arrives on thread t: init_metrics(), refresh().
\* A request is handed to the lowest-numbered thread that is free.
BeginRefresh(t) ==
    /\ pc[t] = "idle"
    /\ \A u \in Threads : u < t => pc[u] # "idle"
    /\ started < MaxRuns
    /\ started' = started + 1
    /\ run' = [run EXCEPT ![t] = started + 1]
    /\ before' = [before EXCEPT ![t] = cache]
    /\ solo' = [u \in Threads |->
                   IF u = t THEN \A v \in Threads \ {t} : pc[v] = "idle"
                   ELSE IF pc[u] # "idle" THEN FALSE
                   ELSE solo[u]]
    /\ resp' = [resp EXCEPT ![t] = NoResponse]
    /\ pc' = [pc EXCEPT ![t] = "load_jobs"]
    /\ UNCHANGED <<files, cache, origin, tmp, edits, rpc, rseen, fnVars, queryVars>>

\* An exception leaves refresh() and init_metrics() and reaches the handler's
\* except clause (server.py lines 4679-4680): HTTP 500, success False.
Raise(t) ==
    /\ resp' = [resp EXCEPT ![t] = [status |-> "done", success |-> FALSE,
                                    after |-> cache]]
    /\ pc' = [pc EXCEPT ![t] = "idle"]
    /\ tmp' = [tmp EXCEPT ![t] = <<>>]
    /\ UNCHANGED <<files, cache, origin, run, before, solo, started, edits,
                   rpc, rseen, fnVars, queryVars>>

\* The right-hand side of one assignment of refresh() is evaluated ...
Compute(t, at, value, next) ==
    /\ pc[t] = at
    /\ tmp' = [tmp EXCEPT ![t] = value]
    /\ pc' = [pc EXCEPT ![t] = next]
    /\ UNCHANGED <<files, cache, origin, run, resp, before, solo, started, edits,
                   rpc, rseen, fnVars, queryVars>>

\* ... and then stored in the attribute.
Store(t, at, field, next) ==
    /\ pc[t] = at
    /\ cache' = [cache EXCEPT ![field] = tmp[t]]
    /\ origin' = [origin EXCEPT ![field] = run[t]]
    /\ tmp' = [tmp EXCEPT ![t] = <<>>]
    /\ pc' = [pc EXCEPT ![t] = next]
    /\ UNCHANGED <<files, run, resp, before, solo, started, edits,
                   rpc, rseen, fnVars, queryVars>>

\* Line 605: self._jobs_metrics = run_jobs_etl()
LoadJobs(t) ==
    \/ files.jobs.ok /\ Compute(t, "load_jobs", run_jobs_etl(files.jobs.data), "store_jobs")
    \/ ~files.jobs.ok /\ pc[t] = "load_jobs" /\ Raise(t)

StoreJobs(t) == Store(t, "store_jobs", "jobs_metrics", "load_ar")

\* Line 606: self._ar_metrics = run_ar_etl()
LoadAr(t) ==
    \/ files.ar.ok /\ Compute(t, "load_ar", run_ar_etl(files.ar.data), "store_ar")
    \/ ~files.ar.ok /\ pc[t] = "load_ar" /\ Raise(t)

StoreAr(t) == Store(t, "store_ar", "ar_metrics", "load_ap")

\* Line 607: self._ap_metrics = run_ap_etl()
LoadAp(t) ==
    \/ files.ap.ok /\ Compute(t, "load_ap", run_ap_etl(files.ap.data), "store_ap")
    \/ ~files.ap.ok /\ pc[t] = "load_ap" /\ Raise(t)

StoreAp(t) == Store(t, "store_ap", "ap_metrics", "calc_pm")

\* Line 608: self._pm_metrics = aggregate_pm_metrics(self._jobs_metrics)
CalcPm(t) ==
    Compute(t, "calc_pm", aggregate_pm_metrics(cache.jobs_metrics, TRUE), "store_pm")

StorePm(t) == Store(t, "store_pm", "pm_metrics", "calc_customers")

\* Line 609: self._ar_by_customer = aggregate_ar_by_customer(self._ar_metrics)
CalcCustomers(t) ==
    Compute(t, "calc_customers", aggregate_ar_by_customer(cache.ar_metrics),
            "store_customers")

StoreCustomers(t) == Store(t, "store_customers", "ar_by_customer", "calc_vendors")

\* Line 610: self._ap_by_vendor = aggregate_ap_by_vendor(self._ap_metrics)
CalcVendors(t) ==
    Compute(t, "calc_vendors", aggregate_ap_by_vendor(cache.ap_metrics),
            "store_vendors")

StoreVendors(t) == Store(t, "store_vendors", "ap_by_vendor", "stamp")

\* Line 611: self._last_refresh = datetime.now()
Stamp(t) ==
    /\ pc[t] = "stamp"
    /\ cache' = [cache EXCEPT !.last_refresh = run[t]]
    /\ origin' = [origin EXCEPT !.last_refresh = run[t]]
    /\ pc' = [pc EXCEPT ![t] = "respond"]
    /\ UNCHANGED <<files, tmp, run, resp, before, solo, started, edits,
                   rpc, rseen, fnVars, queryVars>>

\* server.py lines 4668-4678: the success response with the record counts.
Respond(t) ==
    /\ pc[t] = "respond"
    /\ resp' = [resp EXCEPT ![t] =
                   [status |-> "done", success |-> TRUE,
                    last_refresh |-> cache.last_refresh,
                    counts |-> [jobs |-> Len(cache.jobs_metrics),
                                ar   |-> Len(cache.ar_metrics),
                                ap   |-> Len(cache.ap_metrics),
                                pm   |-> Len(cache.pm_metrics)],
                    after |-> cache]]
    /\ pc' = [pc EXCEPT ![t] = "idle"]
    /\ UNCHANGED <<files, cache, origin, tmp, run, before, solo, started, edits,
                   rpc, rseen, fnVars, queryVars>>

\* execute_nlq_query, target pm_comparison, server.py line 5875:
\* all_pm = metrics_cache.pm
ComparisonReadsPm ==
    /\ rpc = "idle"
    /\ rseen' = [reader |-> "pm_comparison", pm_metrics |-> origin.pm_metrics]
    /\ rpc' = "comparison_has_pm"
    /\ UNCHANGED <<files, cache, origin, pc, tmp, run, resp, before, solo,
                   started, edits, fnVars, queryVars>>

\* server.py line 5876: ar_invoices = metrics_cache.ar
ComparisonReadsAr ==
    /\ rpc = "comparison_has_pm"
    /\ rseen' = [reader |-> "pm_comparison", pm_metrics |-> rseen.pm_metrics,
                 ar_metrics |-> origin.ar_metrics]
    /\ rpc' = "done"
    /\ UNCHANGED <<files, cache, origin, pc, tmp, run, resp, before, solo,
                   started, edits, fnVars, queryVars>>

\* api_metrics_ar, server.py line 4731: metrics_cache.filter_ar(...)
ArPageReadsInvoices ==
    /\ rpc = "idle"
    /\ rseen' = [reader |-> "api_metrics_ar", ar_metrics |-> origin.ar_metrics]
    /\ rpc' = "ar_page_has_invoices"
    /\ UNCHANGED <<files, cache, origin, pc, tmp, run, resp, before, solo,
                   started, edits, fnVars, queryVars>>

\* server.py line 4739: metrics_cache.ar_by_customer
ArPageReadsCustomers ==
    /\ rpc = "ar_page_has_invoices"
    /\ rseen' = [reader |-> "api_metrics_ar", ar_metrics |-> rseen.ar_metrics,
                 ar_by_customer |-> origin.ar_by_customer]
    /\ rpc' = "ar_page_has_customers"
    /\ UNCHANGED <<files, cache, origin, pc, tmp, run, resp, before, solo,
                   started, edits, fnVars, queryVars>>

\* server.py line 4740: metrics_cache.get_ar_summary(), computed from the
\* ar_metrics the cache holds at that moment.
ArPageReadsSummary ==
    /\ rpc = "ar_page_has_customers"
    /\ rseen' = [reader |-> "api_metrics_ar", ar_metrics |-> rseen.ar_metrics,
                 ar_by_customer |-> rseen.ar_by_customer,
                 summary |-> origin.ar_metrics]
    /\ rpc' = "done"
    /\ UNCHANGED <<files, cache, origin, pc, tmp, run, resp, before, solo,
                   started, edits, fnVars, queryVars>>

Refresh(t) ==
    \/ BeginRefresh(t)
    \/ LoadJobs(t) \/ StoreJobs(t)
    \/ LoadAr(t) \/ StoreAr(t)
    \/ LoadAp(t) \/ StoreAp(t)
    \/ CalcPm(t) \/ StorePm(t)
    \/ CalcCustomers(t) \/ StoreCustomers(t)
    \/ CalcVendors(t) \/ StoreVendors(t)
    \/ Stamp(t)
    \/ Respond(t)

Next ==
    \/ RewriteExtracts
    \/ \E t \in Threads : Refresh(t)
    \/ ComparisonReadsPm
    \/ ComparisonReadsAr
    \/ ArPageReadsInvoices
    \/ ArPageReadsCustomers
    \/ ArPageReadsSummary

Spec == Init /\ [][Next]_vars

-----------------------------------------------------------------------------
(* execute_nlq_query: plans, and the helpers of every target *)

\* A plan or a filter set is a record that holds only the keys the caller
\* sent. Numbers in a plan are <<n>>, None is <<>>; names are character
\* sequences; verbs, targets and field names are strings.
Has(d, key) == key \in DOMAIN d

\* d.get(key, default)
Get(d, key, default) == IF Has(d, key) THEN d[key] ELSE default

\* Line 5277: limit = query_plan.get('limit', 50)
DefaultLimit == 50

\* `limit or 50` in the notes of the top, bottom, by_customer and by_vendor
\* verbs and of the ar, ap and pm_summary lists.
NoteFallback == 50

\* `limit or 20` of the list and group-by verbs.
ListFallback == 20

\* `limit or 10` of closest_to_completion and ar by_job.
ShortFallback == 10

limit_of(query_plan) == Get(query_plan, "limit", <<DefaultLimit>>)

\* `limit or d`: None and 0 are falsy.
LimitOr(limit, d) == IF limit = <<>> \/ limit = <<0>> THEN d ELSE limit[1]

\* s[:limit]: s[:None] is the whole list.
SliceLimit(s, limit) == IF limit = <<>> THEN s ELSE Slice(s, limit[1])

\* filters.get(key) is truthy, for a name (a non-empty string)
HasName(filters, key) == Has(filters, key) /\ filters[key] # <<>>

\* filters.get(key) is truthy, for a string code
HasCode(filters, key) == Has(filters, key) /\ filters[key] # ""

\* filters.get(key) is truthy, for a number: 0 is falsy
HasNumber(filters, key) == Has(filters, key) /\ filters[key] # 0

\* x.get(field, 0)
FieldOf(x, field) == IF field \in DOMAIN x THEN x[field] ELSE 0

\* Lines 5280-5285.
pm_matches(pm_name, filter_pm) ==
    IF filter_pm = <<>> THEN TRUE
    ELSE \/ Contains(Lower(pm_name), Lower(filter_pm))
         \/ StartsWith(Lower(pm_name), Lower(filter_pm))

\* A 'Showing N of M' note, and the note of the budget-only sums and averages.
Showing(n, m) == [kind |-> "showing", shown |-> n, of |-> m]

BudgetNote(excluded) == [kind |-> "budget_only", excluded |-> excluded]

\* Lines 5339-5346.
field_alias(field) ==
    CASE field = "revised_contract" -> "contract"
      [] field = "revised_cost" -> "budget_cost"
      [] field = "project_manager_name" -> "pm"
      [] field = "job_description" -> "description"
      [] field = "customer_name" -> "customer"
      [] field = "job_status" -> "status"
      [] OTHER -> field

\* query_plan.get('sort_by') or default, then the alias
sort_field_of(query_plan, default) ==
    field_alias(IF Has(query_plan, "sort_by") /\ query_plan.sort_by # ""
                THEN query_plan.sort_by ELSE default)

\* fields[0] if fields else default, then the alias
first_field_of(query_plan, default) ==
    LET fields == Get(query_plan, "fields", <<>>)
    IN  field_alias(IF fields # <<>> THEN fields[1] ELSE default)

-----------------------------------------------------------------------------
(* execute_nlq_query, target jobs *)

\* Lines 5293-5312: the cached jobs that pass the filters.
jobs_matching(all_jobs, filters) ==
    LET Keep(job) ==
            /\ ~Contains(Lower(job.project_manager), EXCLUDED_PM)
            /\ HasCode(filters, "job_no") => filters.job_no = job.job_no
            /\ HasName(filters, "pm") => pm_matches(job.project_manager, filters.pm)
            /\ HasCode(filters, "status") => job.job_status = filters.status
            /\ HasName(filters, "customer") =>
                   Contains(Lower(job.customer_name), Lower(filters.customer))
    IN  Filter(all_jobs, Keep)

\* Lines 5293-5336: the filtered jobs, mapped to the executor's field names.
jobs_filtered(all_jobs, filters) ==
    LET JobData(job) ==
            [job_no |-> job.job_no, pm |-> job.project_manager,
             customer |-> job.customer_name, status |-> job.job_status,
             contract |-> job.contract, budget_cost |-> job.budget_cost,
             actual_cost |-> job.actual_cost, billed |-> job.billed,
             has_budget |-> job.has_budget,
             percent_complete |-> job.percent_complete,
             earned_revenue |-> job.earned_revenue, backlog |-> job.backlog,
             profit |-> job.profit, margin |-> job.margin,
             over_under_billing |-> job.over_under_billing,
             valid_for_profit |-> job.valid_for_profit,
             profit_basis |-> job.profit_basis]
    IN  Map(jobs_matching(all_jobs, filters), JobData)

SumField(s, field) == SumSeq([i \in 1..Len(s) |-> FieldOf(s[i], field)])

WithBudget(s) == LET P(j) == j.has_budget IN Filter(s, P)

WithoutBudget(s) == LET P(j) == ~j.has_budget IN Filter(s, P)

ValidForProfit(s) == LET P(j) == j.valid_for_profit IN Filter(s, P)

\* round(sum(margin of valid) / len(valid), 2) if valid else 0
avg_margin_of(valid) ==
    IF valid # <<>> THEN RoundDiv(SumField(valid, "margin"), Len(valid)) ELSE 0

\* Lines 5349-5350.
\* A count that reports an empty match as an error.
jobs_count_rejecting_empty(filtered) ==
    IF filtered = <<>> THEN [error |-> "No matching records"]
    ELSE [count |-> Len(filtered)]

jobs_count(filtered) == [count |-> Len(filtered)]

\* Lines 5351-5371.
jobs_sum(filtered, query_plan) ==
    LET field == first_field_of(query_plan, "contract")
        jobs_with_budget == WithBudget(filtered)
        jobs_without_budget == WithoutBudget(filtered)
    IN  IF field \in {"backlog", "earned_revenue", "percent_complete"}
        THEN [total |-> SumField(jobs_with_budget, field),
              field |-> field,
              jobs_counted |-> Len(jobs_with_budget),
              jobs_with_budget |-> Len(jobs_with_budget),
              jobs_without_budget |-> Len(jobs_without_budget),
              note |-> BudgetNote(Len(jobs_without_budget))]
        ELSE [total |-> SumField(filtered, field), field |-> field,
              count |-> Len(filtered)]

\* Lines 5372-5393. round(avg, 1): the average is in tenths of the field's unit.
jobs_average(filtered, query_plan) ==
    LET field == first_field_of(query_plan, "margin")
        jobs_with_budget == WithBudget(filtered)
        jobs_without_budget == WithoutBudget(filtered)
        Avg(s) == IF s # <<>> THEN RoundDiv(SumField(s, field), 10 * Len(s)) ELSE 0
    IN  IF field \in {"percent_complete", "margin", "earned_revenue", "backlog"}
        THEN [average |-> Avg(jobs_with_budget),
              field |-> field,
              jobs_counted |-> Len(jobs_with_budget),
              jobs_with_budget |-> Len(jobs_with_budget),
              jobs_without_budget |-> Len(jobs_without_budget),
              note |-> BudgetNote(Len(jobs_without_budget))]
        ELSE [average |-> Avg(filtered), field |-> field, count |-> Len(filtered)]

\* The ranked envelope of top and bottom with its totals taken from the items.
jobs_ranked_totals_from_items(sorted, sort_field, limit) ==
    LET items == SliceLimit(sorted, limit)
        valid_for_profit == ValidForProfit(items)
    IN  [items |-> items,
         sort_by |-> sort_field,
         total_count |-> Len(items),
         total_contract |-> SumField(items, "contract"),
         total_profit |-> SumField(valid_for_profit, "profit"),
         avg_margin |-> avg_margin_of(valid_for_profit),
         note |-> Showing(Min(LimitOr(limit, NoteFallback), Len(sorted)), Len(sorted))]

\* Lines 5399-5409 and 5474-5484: the envelope of top and bottom.
jobs_ranked(sorted, sort_field, limit) ==
    LET valid_for_profit == ValidForProfit(sorted)
    IN  [items |-> SliceLimit(sorted, limit),
         sort_by |-> sort_field,
         total_count |-> Len(sorted),
         total_contract |-> SumField(sorted, "contract"),
         total_profit |-> SumField(valid_for_profit, "profit"),
         avg_margin |-> avg_margin_of(valid_for_profit),
         note |-> Showing(Min(LimitOr(limit, NoteFallback), Len(sorted)), Len(sorted))]

\* Lines 5394-5409.
jobs_top(filtered, query_plan) ==
    LET sort_field == sort_field_of(query_plan, "contract")
        Key(x) == FieldOf(x, sort_field)
    IN  jobs_ranked(SortDesc(filtered, Key), sort_field, limit_of(query_plan))

\* Lines 5469-5484.
jobs_bottom(filtered, query_plan) ==
    LET sort_field == sort_field_of(query_plan, "margin")
        Key(x) == FieldOf(x, sort_field)
    IN  jobs_ranked(SortAsc(filtered, Key), sort_field, limit_of(query_plan))

\* Lines 5410-5414.
jobs_closest_to_completion(filtered, query_plan) ==
    LET Open(j) == j.budget_cost > 0 /\ j.percent_complete > 0
                   /\ j.percent_complete < 10000
        Key(x) == x.percent_complete
        with_budgets == SortDesc(Filter(filtered, Open), Key)
    IN  [items |-> Slice(with_budgets, LimitOr(limit_of(query_plan), ShortFallback)),
         total_with_budgets |-> Len(with_budgets)]

\* Lines 5417-5450: one PM's row of the executor's own grouping. margin and
\* avg_completion are rounded to one decimal: tenths of a percent.
jobs_by_pm_row(filtered, pm) ==
    LET Mine(j) == j.pm = pm
        mine == Filter(filtered, Mine)
        IsActive(j) == j.status = "A"
        contract == SumField(mine, "contract")
        budget_cost == SumField(mine, "budget_cost")
        actual_cost == SumField(mine, "actual_cost")
        billed == SumField(mine, "billed")
        earned_revenue == SumField(mine, "earned_revenue")
    IN  [pm |-> pm,
         job_count |-> Len(mine),
         active_jobs |-> Len(Filter(mine, IsActive)),
         jobs_with_budget |-> Len(WithBudget(mine)),
         contract |-> contract,
         budget_cost |-> budget_cost,
         actual_cost |-> actual_cost,
         billed |-> billed,
         earned_revenue |-> earned_revenue,
         backlog |-> SumField(mine, "backlog"),
         margin |-> IF contract > 0
                    THEN RoundDiv((contract - budget_cost) * 1000, contract)
                    ELSE 0,
         over_under_billing |-> billed - earned_revenue,
         avg_completion |-> IF budget_cost > 0
                            THEN RoundDiv(actual_cost * 1000, budget_cost)
                            ELSE 0]

\* Lines 5415-5456.
jobs_by_pm(filtered, query_plan) ==
    LET PmOf(j) == j.pm
        names == Keys(filtered, PmOf)
        by_pm == [i \in 1..Len(names) |-> jobs_by_pm_row(filtered, names[i])]
        sort_field == sort_field_of(query_plan, "contract")
        Key(x) == FieldOf(x, sort_field)
        sorted_pms == SortDesc(by_pm, Key)
    IN  [items |-> Slice(sorted_pms, LimitOr(limit_of(query_plan), ListFallback)),
         total_pms |-> Len(by_pm)]

\* Lines 5457-5468.
jobs_by_customer(filtered, query_plan) ==
    LET CustOf(j) == j.customer
        names == Keys(filtered, CustOf)
        Row(c) == LET Mine(j) == j.customer = c
                      mine == Filter(filtered, Mine)
                  IN  [customer |-> c, job_count |-> Len(mine),
                       contract |-> SumField(mine, "contract")]
        by_cust == [i \in 1..Len(names) |-> Row(names[i])]
        Key(x) == x.contract
        sorted_custs == SortDesc(by_cust, Key)
    IN  [items |-> Slice(sorted_custs, LimitOr(limit_of(query_plan), ListFallback)),
         total_customers |-> Len(by_cust)]

\* Lines 5485-5513: the default branch, taken by 'list' and by any other verb.
jobs_list(filtered, query_plan) ==
    LET jobs_with_budget == WithBudget(filtered)
        jobs_without_budget == WithoutBudget(filtered)
        sort_field == sort_field_of(query_plan, "contract")
        Key(x) == FieldOf(x, sort_field)
        sorted == SortDesc(filtered, Key)
        valid_for_profit == ValidForProfit(sorted)
        limit == limit_of(query_plan)
    IN  [items |-> Slice(sorted, LimitOr(limit, ListFallback)),
         total_count |-> Len(sorted),
         jobs_with_budget |-> Len(jobs_with_budget),
         jobs_without_budget |-> Len(jobs_without_budget),
         jobs_valid_for_profit |-> Len(valid_for_profit),
         total_actual_cost |-> SumField(sorted, "actual_cost"),
         total_contract |-> SumField(sorted, "contract"),
         total_billed |-> SumField(sorted, "billed"),
         total_profit |-> SumField(valid_for_profit, "profit"),
         avg_margin |-> avg_margin_of(valid_for_profit),
         avg_completion_with_budget |->
             IF jobs_with_budget # <<>>
             THEN RoundDiv(SumField(jobs_with_budget, "percent_complete"),
                           10 * Len(jobs_with_budget))
             ELSE 0,
         note |-> Showing(Min(LimitOr(limit, ListFallback), Len(sorted)), Len(sorted))]

\* Lines 5288-5513.
jobs_query(all_jobs, query_plan) ==
    LET filtered == jobs_filtered(all_jobs, Get(query_plan, "filters", <<>>))
        aggregation == Get(query_plan, "aggregation", "list")
    IN  CASE aggregation = "count" -> jobs_count(filtered)
          [] aggregation = "sum" -> jobs_sum(filtered, query_plan)
          [] aggregation = "average" -> jobs_average(filtered, query_plan)
          [] aggregation = "top" -> jobs_top(filtered, query_plan)
          [] aggregation = "closest_to_completion" ->
                 jobs_closest_to_completion(filtered, query_plan)
          [] aggregation = "by_pm" -> jobs_by_pm(filtered, query_plan)
          [] aggregation = "by_customer" -> jobs_by_customer(filtered, query_plan)
          [] aggregation = "bottom" -> jobs_bottom(filtered, query_plan)
          [] OTHER -> jobs_list(filtered, query_plan)

-----------------------------------------------------------------------------
(* execute_nlq_query, targets ar and ap *)

\* The rows of a dict of sums filled by one pass over s, in insertion order.
SumsBy(s, Key(_), Amount(_), key_name) ==
    LET names == Keys(s, Key)
        Total(k) == SumSeq([i \in 1..Len(s) |->
                               IF Key(s[i]) = k THEN Amount(s[i]) ELSE 0])
    IN  [n \in 1..Len(names) |->
            IF key_name = "customer"
            THEN [customer |-> names[n], amount |-> Total(names[n])]
            ELSE [vendor |-> names[n], amount |-> Total(names[n])]]

\* weighted_days / total if total > 0 else 0, rounded to one decimal: tenths
\* of a day.
weighted_avg_days(s, amount_field) ==
    LET total == SumField(s, amount_field)
        weighted_days == SumSeq([i \in 1..Len(s) |->
                                    s[i][amount_field] * s[i].days_outstanding])
    IN  IF total > 0 THEN RoundDiv(weighted_days * 10, total) ELSE 0

\* top5_total / total * 100 if total > 0 else 0, rounded to one decimal: tenths
\* of a percent.
top5_concentration_of(top5, total) ==
    IF total > 0 THEN RoundDiv(SumField(top5, "amount") * 1000, total) ELSE 0

\* The age buckets of lines 5598-5607 and 5721-5730.
bucket_sum(s, amount_field, bucket) ==
    SumSeq([i \in 1..Len(s) |->
               IF aging_bucket_of(s[i].days_outstanding) = bucket
               THEN s[i][amount_field] ELSE 0])

\* Lines 5519-5551.
ar_filtered(all_ar, filters) ==
    LET Keep(inv) ==
            /\ HasName(filters, "pm") =>
                   /\ ~Contains(Lower(inv.project_manager), EXCLUDED_PM)
                   /\ pm_matches(inv.project_manager, filters.pm)
            /\ HasName(filters, "customer") =>
                   Contains(Lower(inv.customer_name), Lower(filters.customer))
            /\ HasNumber(filters, "min_days") =>
                   inv.days_outstanding >= filters.min_days
            /\ HasNumber(filters, "max_days") =>
                   inv.days_outstanding <= filters.max_days
        Row(inv) ==
            [customer |-> inv.customer_name, invoice_no |-> inv.invoice_no,
             calc_due |-> inv.calculated_amount_due,
             collectible |-> inv.collectible, retainage |-> inv.retainage,
             days_outstanding |-> inv.days_outstanding, job_no |-> inv.job_no,
             pm |-> inv.project_manager]
    IN  Map(Filter(all_ar, Keep), Row)

\* Lines 5553-5580.
ar_sum(filtered) ==
    LET total_collectible == SumField(filtered, "collectible")
        total_retainage == SumField(filtered, "retainage")
        Cust(i) == i.customer
        Coll(i) == i.collectible
        Amount(r) == r.amount
        sorted_custs == Slice(SortDesc(SumsBy(filtered, Cust, Coll, "customer"),
                                       Amount), 5)
    IN  [total_due |-> total_collectible + total_retainage,
         collectible |-> total_collectible,
         retainage |-> total_retainage,
         invoice_count |-> Len(filtered),
         avg_days_outstanding |-> weighted_avg_days(filtered, "collectible"),
         top5_concentration_pct |->
             top5_concentration_of(sorted_custs, total_collectible),
         top5_customers |-> sorted_custs]

\* Lines 5581-5594.
ar_by_customer(filtered, limit) ==
    LET Cust(i) == i.customer
        Coll(i) == i.collectible
        Amount(r) == r.amount
        sorted_custs == SortDesc(SumsBy(filtered, Cust, Coll, "customer"), Amount)
    IN  [items |-> SliceLimit(sorted_custs, limit),
         total_customers |-> Len(sorted_custs),
         total_collectible |-> SumField(sorted_custs, "amount"),
         note |-> Showing(Min(LimitOr(limit, NoteFallback), Len(sorted_custs)),
                          Len(sorted_custs))]

\* Lines 5595-5611.
ar_aging(filtered) ==
    LET B(b) == bucket_sum(filtered, "collectible", b)
        total_collectible ==
            B("current") + B("days_31_60") + B("days_61_90") + B("days_90_plus")
        retainage == SumField(filtered, "retainage")
    IN  [current |-> B("current"), days_31_60 |-> B("days_31_60"),
         days_61_90 |-> B("days_61_90"), days_90_plus |-> B("days_90_plus"),
         retainage |-> retainage,
         total_collectible |-> total_collectible,
         total_due |-> total_collectible + retainage]

\* Lines 5612-5625.
ar_by_pm(filtered, limit) ==
    LET NotJosh(i) == ~Contains(Lower(i.pm), EXCLUDED_PM)
        kept == Filter(filtered, NotJosh)
        PmOf(i) == i.pm
        names == Keys(kept, PmOf)
        Row(pm) == LET Mine(i) == i.pm = pm
                       mine == Filter(kept, Mine)
                   IN  [pm |-> pm,
                        collectible |-> SumField(mine, "collectible"),
                        retainage |-> SumField(mine, "retainage"),
                        invoice_count |-> Len(mine)]
        by_pm == [n \in 1..Len(names) |-> Row(names[n])]
        Coll(r) == r.collectible
    IN  [items |-> Slice(SortDesc(by_pm, Coll), LimitOr(limit, ListFallback)),
         total_pms |-> Len(by_pm)]

\* Lines 5626-5637.
ar_by_job(filtered, limit) ==
    LET JobOf(i) == i.job_no
        names == Keys(filtered, JobOf)
        Row(j) == LET Mine(i) == i.job_no = j
                      mine == Filter(filtered, Mine)
                  IN  [job_no |-> j,
                       collectible |-> SumField(mine, "collectible"),
                       retainage |-> SumField(mine, "retainage"),
                       invoice_count |-> Len(mine),
                       customer |-> mine[1].customer, pm |-> mine[1].pm]
        by_job == [n \in 1..Len(names) |-> Row(names[n])]
        Coll(r) == r.collectible
    IN  [total_ar |-> SumField(filtered, "collectible"),
         items |-> Slice(SortDesc(by_job, Coll), LimitOr(limit, ShortFallback))]

\* Lines 5638-5655: the default branch, taken by 'list' and by any other verb.
ar_list(filtered, limit) ==
    LET Coll(i) == i.collectible
    IN  [items |-> SliceLimit(SortDesc(filtered, Coll), limit),
         total_count |-> Len(filtered),
         total_collectible |-> SumField(filtered, "collectible"),
         total_retainage |-> SumField(filtered, "retainage"),
         total_due |-> SumField(filtered, "calc_due"),
         avg_days_outstanding |-> weighted_avg_days(filtered, "collectible"),
         note |-> Showing(Min(LimitOr(limit, NoteFallback), Len(filtered)),
                          Len(filtered))]

\* Lines 5516-5655.
ar_query(all_ar, query_plan) ==
    LET filtered == ar_filtered(all_ar, Get(query_plan, "filters", <<>>))
        aggregation == Get(query_plan, "aggregation", "list")
        limit == limit_of(query_plan)
    IN  CASE aggregation = "sum" -> ar_sum(filtered)
          [] aggregation = "by_customer" -> ar_by_customer(filtered, limit)
          [] aggregation = "aging" -> ar_aging(filtered)
          [] aggregation = "by_pm" -> ar_by_pm(filtered, limit)
          [] aggregation = "by_job" -> ar_by_job(filtered, limit)
          [] OTHER -> ar_list(filtered, limit)

\* Lines 5661-5680. The rows carry no retainage.
ap_filtered(all_ap, filters) ==
    LET Keep(inv) ==
            /\ HasName(filters, "vendor") =>
                   Contains(Lower(inv.vendor_name), Lower(filters.vendor))
            /\ HasNumber(filters, "min_days") =>
                   inv.days_outstanding >= filters.min_days
        Row(inv) ==
            [vendor |-> inv.vendor_name, invoice_no |-> inv.invoice_no,
             amount |-> inv.remaining_balance,
             days_outstanding |-> inv.days_outstanding, job_no |-> inv.job_no]
    IN  Map(Filter(all_ap, Keep), Row)

\* Lines 5682-5704.
ap_sum(filtered) ==
    LET total_ap == SumField(filtered, "amount")
        Vend(i) == i.vendor
        Amt(i) == i.amount
        Amount(r) == r.amount
        sorted_vendors == Slice(SortDesc(SumsBy(filtered, Vend, Amt, "vendor"),
                                         Amount), 5)
    IN  [total |-> total_ap,
         invoice_count |-> Len(filtered),
         avg_days_outstanding |-> weighted_avg_days(filtered, "amount"),
         top5_concentration_pct |-> top5_concentration_of(sorted_vendors, total_ap),
         top5_vendors |-> sorted_vendors]

\* Lines 5705-5718.
ap_by_vendor(filtered, limit) ==
    LET Vend(i) == i.vendor
        Amt(i) == i.amount
        Amount(r) == r.amount
        sorted_vendors == SortDesc(SumsBy(filtered, Vend, Amt, "vendor"), Amount)
    IN  [items |-> SliceLimit(sorted_vendors, limit),
         total_vendors |-> Len(sorted_vendors),
         total_amount |-> SumField(sorted_vendors, "amount"),
         note |-> Showing(Min(LimitOr(limit, NoteFallback), Len(sorted_vendors)),
                          Len(sorted_vendors))]

\* Lines 5719-5731.
ap_aging(filtered) ==
    [current |-> bucket_sum(filtered, "amount", "current"),
     days_31_60 |-> bucket_sum(filtered, "amount", "days_31_60"),
     days_61_90 |-> bucket_sum(filtered, "amount", "days_61_90"),
     days_90_plus |-> bucket_sum(filtered, "amount", "days_90_plus")]

\* Lines 5732-5747: the default branch, taken by 'list' and by any other verb.
ap_list(filtered, limit) ==
    LET Amt(i) == i.amount
    IN  [items |-> SliceLimit(SortDesc(filtered, Amt), limit),
         total_count |-> Len(filtered),
         total_amount |-> SumField(filtered, "amount"),
         total_retainage |-> SumField(filtered, "retainage"),
         avg_days_outstanding |-> weighted_avg_days(filtered, "amount"),
         note |-> Showing(Min(LimitOr(limit, NoteFallback), Len(filtered)),
                          Len(filtered))]

\* Lines 5658-5747.
ap_query(all_ap, query_plan) ==
    LET filtered == ap_filtered(all_ap, Get(query_plan, "filters", <<>>))
        aggregation == Get(query_plan, "aggregation", "list")
        limit == limit_of(query_plan)
    IN  CASE aggregation = "sum" -> ap_sum(filtered)
          [] aggregation = "by_vendor" -> ap_by_vendor(filtered, limit)
          [] aggregation = "aging" -> ap_aging(filtered)
          [] OTHER -> ap_list(filtered, limit)

-----------------------------------------------------------------------------
(* execute_nlq_query, target pm_summary *)

\* Lines 5808-5835.
pm_list_of(all_pm) ==
    LET Row(pm_data) ==
            [pm |-> pm_data.project_manager,
             jobs |-> FieldOf(pm_data, "total_jobs"),
             active_jobs |-> FieldOf(pm_data, "active_jobs"),
             closed_jobs |-> FieldOf(pm_data, "closed_jobs"),
             jobs_with_budget |-> FieldOf(pm_data, "jobs_with_budget"),
             jobs_valid_for_profit |-> FieldOf(pm_data, "jobs_valid_for_profit"),
             contract |-> FieldOf(pm_data, "total_contract"),
             budget_cost |-> FieldOf(pm_data, "total_budget"),
             actual_cost |-> FieldOf(pm_data, "total_actual"),
             billed |-> FieldOf(pm_data, "total_billed"),
             earned_revenue |-> FieldOf(pm_data, "total_earned_revenue"),
             backlog |-> FieldOf(pm_data, "total_backlog"),
             profit |-> FieldOf(pm_data, "total_profit"),
             margin |-> FieldOf(pm_data, "avg_margin"),
             avg_completion |-> FieldOf(pm_data, "avg_completion"),
             active_profit |-> FieldOf(pm_data, "active_profit"),
             active_margin |-> FieldOf(pm_data, "active_avg_margin"),
             active_valid_for_profit |-> FieldOf(pm_data, "active_valid_for_profit"),
             closed_profit |-> FieldOf(pm_data, "closed_profit"),
             closed_margin |-> FieldOf(pm_data, "closed_avg_margin"),
             closed_valid_for_profit |-> FieldOf(pm_data, "closed_valid_for_profit")]
    IN  Map(all_pm, Row)

\* Lines 5804-5864.
pm_summary_query(all_pm, query_plan) ==
    LET filters == Get(query_plan, "filters", <<>>)
        aggregation == Get(query_plan, "aggregation", "list")
        limit == limit_of(query_plan)
        Matches(p) == pm_matches(p.pm, filters.pm)
        matched == IF HasName(filters, "pm")
                   THEN Filter(pm_list_of(all_pm), Matches)
                   ELSE pm_list_of(all_pm)
        sort_order == Get(query_plan, "sort_order", "desc")
        sort_by_field ==
            IF Has(query_plan, "sort_by") /\ query_plan.sort_by # ""
            THEN query_plan.sort_by
            ELSE LET fields == Get(query_plan, "fields", <<>>)
                 IN  IF fields # <<>> THEN fields[1] ELSE "active_jobs"
        Margin(x) == x.margin
        Key(x) == FieldOf(x, sort_by_field)
        pm_list == IF aggregation \in {"margin_analysis", "bottom"}
                   THEN SortAsc(matched, Margin)
                   ELSE IF sort_order = "desc" THEN SortDesc(matched, Key)
                   ELSE SortAsc(matched, Key)
    IN  [items |-> SliceLimit(pm_list, limit),
         total_pms |-> Len(pm_list),
         grand_total_profit |-> SumField(pm_list, "profit"),
         grand_total_contract |-> SumField(pm_list, "contract"),
         grand_total_jobs |-> SumField(pm_list, "jobs"),
         grand_avg_margin |-> IF pm_list # <<>>
                              THEN RoundDiv(SumField(pm_list, "margin"), Len(pm_list))
                              ELSE 0,
         note |-> Showing(Min(LimitOr(limit, NoteFallback), Len(pm_list)),
                          Len(pm_list))]

-----------------------------------------------------------------------------
(* execute_nlq_query, targets cost_codes and customers: these read the
   extracts that load_nlq_data loaded, not the cache *)

\* Lines 6049-6057: the PM of an actuals row, looked up by job number; the
\* last budget row of a job wins, and a job without one has the PM ''.
pm_by_job(budgets, job_no) ==
    LET rows == {i \in 1..Len(budgets) : budgets[i].job_no = job_no}
    IN  IF rows = {} THEN <<>>
        ELSE budgets[CHOOSE i \in rows : \A j \in rows : j <= i].project_manager_name

\* Lines 6054-6074.
cost_codes_filtered(jobs_data, filters) ==
    LET Keep(a) ==
            LET pm == pm_by_job(jobs_data.job_budgets, a.Job_No)
            IN  /\ ~Contains(Lower(pm), EXCLUDED_PM)
                /\ HasName(filters, "pm") => pm_matches(pm, filters.pm)
                /\ HasCode(filters, "job_no") => filters.job_no = a.Job_No
                /\ HasCode(filters, "cost_code") => filters.cost_code = a.Cost_Code_No
        Row(a) == [job_no |-> a.Job_No, cost_code |-> a.Cost_Code_No,
                   value |-> Float(a.Value),
                   pm |-> pm_by_job(jobs_data.job_budgets, a.Job_No)]
    IN  Map(Filter(jobs_data.job_actuals, Keep), Row)

\* Lines 6077-6093.
cost_codes_by_cost_code(filtered, limit) ==
    LET CodeOf(i) == i.cost_code
        names == Keys(filtered, CodeOf)
        Row(cc) == LET Mine(i) == i.cost_code = cc
                       mine == Filter(filtered, Mine)
                   IN  [cost_code |-> cc, total |-> SumField(mine, "value"),
                        job_count |-> Len(mine)]
        by_cc == [n \in 1..Len(names) |-> Row(names[n])]
        Total(r) == r.total
        sorted_cc == SortDesc(by_cc, Total)
    IN  [items |-> Slice(sorted_cc, LimitOr(limit, ListFallback)),
         total_cost_codes |-> Len(by_cc),
         grand_total |-> SumField(sorted_cc, "total"),
         note |-> Showing(Min(LimitOr(limit, ListFallback), Len(sorted_cc)),
                          Len(sorted_cc))]

\* Lines 6044-6096.
cost_codes_query(jobs_data, query_plan) ==
    LET filtered == cost_codes_filtered(jobs_data, Get(query_plan, "filters", <<>>))
    IN  IF Get(query_plan, "aggregation", "list") = "by_cost_code"
        THEN cost_codes_by_cost_code(filtered, limit_of(query_plan))
        ELSE [total_cost |-> SumField(filtered, "value"),
              record_count |-> Len(filtered)]

\* Lines 6106-6116: the budget rows that count towards a customer.
customer_jobs(budgets, filters) ==
    LET Keep(job) ==
            /\ job.customer_name # <<>>
            /\ ~Contains(Lower(job.project_manager_name), EXCLUDED_PM)
            /\ HasName(filters, "pm") => pm_matches(job.project_manager_name, filters.pm)
            /\ HasCode(filters, "status") => job.job_status = filters.status
    IN  Filter(budgets, Keep)

\* Lines 6127-6130: the invoices that count towards a customer.
customer_invoices(ar_invoices) ==
    LET Keep(inv) == inv.customer_name # <<>>
    IN  Filter(ar_invoices, Keep)

\* Lines 6118-6141: one customer's row.
customer_data_row(jobs, invoices, customer) ==
    LET MyJob(j) == j.customer_name = customer
        MyInv(i) == i.customer_name = customer
        IsActive(j) == j.job_status = "A"
        mine == Filter(jobs, MyJob)
        mine_ar == Filter(invoices, MyInv)
    IN  [customer |-> customer,
         job_count |-> Len(mine),
         active_jobs |-> Len(Filter(mine, IsActive)),
         contract |-> SumSeq([i \in 1..Len(mine) |-> Float(mine[i].revised_contract)]),
         ar_balance |-> SumSeq([i \in 1..Len(mine_ar) |->
             Max(0, Float(mine_ar[i].calculated_amount_due)
                    - Float(mine_ar[i].retainage_amount))]),
         ar_retainage |-> SumSeq([i \in 1..Len(mine_ar) |->
             Float(mine_ar[i].retainage_amount)]),
         invoice_count |-> Len(mine_ar)]

\* Lines 6099-6160.
customers_query(jobs_data, ar_data, query_plan) ==
    LET jobs == customer_jobs(jobs_data.job_budgets, Get(query_plan, "filters", <<>>))
        invoices == customer_invoices(ar_data.invoices)
        NameOf(r) == r.customer_name
        names == Keys(jobs \o invoices, NameOf)
        customer_data ==
            [n \in 1..Len(names) |-> customer_data_row(jobs, invoices, names[n])]
        sort_field == Get(query_plan, "sort_by", "contract")
        sort_order == Get(query_plan, "sort_order", "desc")
        Key(x) == FieldOf(x, sort_field)
        sorted_customers == IF sort_order = "desc" THEN SortDesc(customer_data, Key)
                            ELSE SortAsc(customer_data, Key)
        limit == limit_of(query_plan)
    IN  [items |-> Slice(sorted_customers, LimitOr(limit, ListFallback)),
         total_customers |-> Len(customer_data),
         grand_total_contract |-> SumField(sorted_customers, "contract"),
         grand_total_ar |-> SumField(sorted_customers, "ar_balance"),
         grand_total_jobs |-> SumField(sorted_customers, "job_count"),
         note |-> Showing(Min(LimitOr(limit, ListFallback), Len(sorted_customers)),
                          Len(sorted_customers))]

-----------------------------------------------------------------------------
(* execute_nlq_query *)

\* The error envelope of lines 6162-6163.
UnknownTarget(target) == [error |-> "Unknown target", target |-> target]

\* Lines 5262-6171, for the targets that are answered from the cache and from
\* the three extracts. The targets gl, cash, job_detail and pm_comparison read
\* other data and return no page of items; no plan of this model names them.
execute_nlq_query(query_plan, data, metrics_cache) ==
    LET target == Get(query_plan, "target_data", "")
    IN  CASE target = "jobs" -> jobs_query(metrics_cache.jobs_metrics, query_plan)
          [] target = "ar" -> ar_query(metrics_cache.ar_metrics, query_plan)
          [] target = "ap" -> ap_query(metrics_cache.ap_metrics, query_plan)
          [] target = "pm_summary" ->
                 pm_summary_query(metrics_cache.pm_metrics, query_plan)
          [] target = "cost_codes" -> cost_codes_query(data.jobs, query_plan)
          [] target = "customers" -> customers_query(data.jobs, data.ar, query_plan)
          [] OTHER -> UnknownTarget(target)

-----------------------------------------------------------------------------
(* The specification of the query executor: one cache built from bounded
   extracts, queried with plans drawn from bounded sets *)

\* The largest limit a plan of the model carries.
MaxLimit == 2

\* A key a plan does not carry.
Absent == <<>>

\* A plan's limit: absent, null, or 0..MaxLimit.
LimitChoices ==
    {Absent, [limit |-> <<>>]} \cup {[limit |-> <<n>>] : n \in 0..MaxLimit}

\* Filter sets: an empty dict, no filters key at all, and one filter each.
\* 'region' is a field no target knows.
NoFilters == [filters |-> <<>>]

FilterPm == [filters |-> [pm |-> <<"a", "l">>]]

FilterRegion == [filters |-> [region |-> <<"X">>]]

JobsFilterChoices ==
    {Absent, NoFilters, FilterPm, FilterRegion,
     [filters |-> [status |-> "A"]], [filters |-> [customer |-> <<"x">>]]}

ArFilterChoices ==
    {NoFilters, FilterPm, FilterRegion,
     [filters |-> [customer |-> <<"y">>]],
     [filters |-> [min_days |-> 31]], [filters |-> [min_days |-> 0]],
     [filters |-> [max_days |-> 30]], [filters |-> [max_days |-> 0]]}

ApFilterChoices ==
    {NoFilters, FilterRegion,
     [filters |-> [vendor |-> <<"v">>]], [filters |-> [min_days |-> 60]],
     [filters |-> [max_days |-> 30]]}

\* Every verb some target of the executor names; 'median' is named by none.
JobsVerbs ==
    {"count", "sum", "average", "top", "closest_to_completion", "by_pm",
     "by_customer", "bottom", "list"}

ArVerbs == {"sum", "by_customer", "aging", "by_pm", "by_job", "list"}

ApVerbs == {"sum", "by_vendor", "aging", "list"}

PmSummaryVerbs == {"margin_analysis", "bottom", "list"}

CostCodeVerbs == {"by_cost_code", "sum"}

VerbChoices(verbs) ==
    {Absent} \cup {[aggregation |-> v] : v \in verbs \cup {"median"}}

JobsPlans ==
    {[target_data |-> "jobs"] @@ v @@ l @@ f @@ s @@ c :
        v \in VerbChoices(JobsVerbs), l \in LimitChoices, f \in JobsFilterChoices,
        s \in {Absent, [sort_by |-> "margin"]},
        c \in {Absent, [fields |-> <<"backlog">>]}}

ArPlans ==
    {[target_data |-> "ar"] @@ v @@ l @@ f :
        v \in VerbChoices(ArVerbs), l \in LimitChoices, f \in ArFilterChoices}

ApPlans ==
    {[target_data |-> "ap"] @@ v @@ l @@ f :
        v \in VerbChoices(ApVerbs), l \in LimitChoices, f \in ApFilterChoices}

PmSummaryPlans ==
    {[target_data |-> "pm_summary"] @@ v @@ l @@ f @@ s @@ o :
        v \in VerbChoices(PmSummaryVerbs), l \in LimitChoices,
        f \in {NoFilters, FilterPm, FilterRegion},
        s \in {Absent, [sort_by |-> "margin"]},
        o \in {Absent, [sort_order |-> "asc"]}}

CostCodePlans ==
    {[target_data |-> "cost_codes"] @@ v @@ l @@ f :
        v \in VerbChoices(CostCodeVerbs), l \in LimitChoices,
        f \in {NoFilters, FilterPm, FilterRegion, [filters |-> [cost_code |-> "100"]]}}

CustomerPlans ==
    {[target_data |-> "customers"] @@ v @@ l @@ f @@ s :
        v \in {Absent, [aggregation |-> "median"]}, l \in LimitChoices,
        f \in {NoFilters, FilterRegion, [filters |-> [status |-> "A"]]},
        s \in {Absent, [sort_by |-> "ar_balance"]}}

\* Plans that name no target, or a target the executor does not know.
StrayPlans ==
    {t @@ v : t \in {Absent, [target_data |-> "widgets"]},
              v \in {Absent, [aggregation |-> "list"]}}

Plans ==
    JobsPlans \cup ArPlans \cup ApPlans \cup PmSummaryPlans \cup CostCodePlans
        \cup CustomerPlans \cup StrayPlans

\* Runs of at most n consecutive rows of a pool.
Windows(pool, n) ==
    {SubSeq(pool, w[1], w[2]) :
        w \in {v \in (1..Len(pool)) \X (0..Len(pool)) :
                  v[2] >= v[1] - 1 /\ v[2] - v[1] < n}}

\* The extracts the queried cache is built from: one of the three varies over
\* the windows of its pool while the other two hold their second generation.
QueryFiles ==
    {Files(JobsData(w), ExtractV2.ar, ExtractV2.ap, "none") :
        w \in Windows(JobPool, MaxJobs)}
    \cup {Files(ExtractV2.jobs, [invoices |-> w], ExtractV2.ap, "none") :
        w \in Windows(ArPool, MaxInvoices)}
    \cup {Files(ExtractV2.jobs, ExtractV2.ar, [invoices |-> w], "none") :
        w \in Windows(ApPool, MaxInvoices)}

\* load_nlq_data, lines 5227-5260: the extracts as the request reads them.
load_nlq_data(f) == [jobs |-> f.jobs.data, ar |-> f.ar.data, ap |-> f.ap.data]

InitQuery ==
    /\ ParkedFn
    /\ files \in QueryFiles
    /\ cache = Snapshot(files, 0)
    /\ origin = <<>> /\ pc = <<>> /\ tmp = <<>> /\ run = <<>> /\ resp = <<>>
    /\ before = <<>> /\ solo = <<>> /\ started = 0 /\ edits = 0
    /\ rpc = "idle" /\ rseen = <<>>
    /\ plan = NotRun /\ envelope = NotRun

\* One request of /api/nlq: the plan is executed against the cache. The
\* executor keeps no state between requests, so a behaviour holds one request.
ExecuteNlqQuery ==
    /\ plan = NotRun
    /\ \E query_plan \in Plans :
          /\ plan' = query_plan
          /\ envelope' = execute_nlq_query(query_plan, load_nlq_data(files), cache)
    /\ UNCHANGED <<fnVars, cacheVars>>

NextQuery == ExecuteNlqQuery

SpecQuery == InitQuery /\ [][NextQuery]_vars

-----------------------------------------------------------------------------
(* SpecRead: the requests that read the cache *)

\* MetricsCache.filter_jobs, lines 657-677. An absent argument is <<>> (a
\* name), "" (a status) or <<>> (has_budget: <<>> or <<b>>). results is bound to
\* the cached list itself, then rebound to a new list by each filter that applies.
filter_jobs(self, pm, status, customer, has_budget, exclude_josh) ==
    LET NotJosh(j) == ~Contains(Lower(j.project_manager), EXCLUDED_PM)
        OfPm(j) == Contains(Lower(j.project_manager), Lower(pm))
        OfStatus(j) == j.job_status = status
        OfCustomer(j) == Contains(Lower(j.customer_name), Lower(customer))
        OfBudget(j) == j.has_budget = has_budget[1]
        r0 == self.jobs_metrics
        r1 == IF exclude_josh THEN Filter(r0, NotJosh) ELSE r0
        r2 == IF pm # <<>> THEN Filter(r1, OfPm) ELSE r1
        r3 == IF status # "" THEN Filter(r2, OfStatus) ELSE r2
        r4 == IF customer # <<>> THEN Filter(r3, OfCustomer) ELSE r3
    IN  IF has_budget # <<>> THEN Filter(r4, OfBudget) ELSE r4

\* MetricsCache.filter_ar, lines 679-689.
filter_ar(self, customer, pm) ==
    LET OfCustomer(inv) == Contains(Lower(inv.customer_name), Lower(customer))
        OfPm(inv) == Contains(Lower(inv.project_manager), Lower(pm))
        r0 == self.ar_metrics
        r1 == IF customer # <<>> THEN Filter(r0, OfCustomer) ELSE r0
    IN  IF pm # <<>> THEN Filter(r1, OfPm) ELSE r1

\* MetricsCache.filter_ap, lines 691-701.
filter_ap(self, vendor, pm) ==
    LET OfVendor(inv) == Contains(Lower(inv.vendor_name), Lower(vendor))
        OfPm(inv) == Contains(Lower(inv.project_manager), Lower(pm))
        r0 == self.ap_metrics
        r1 == IF vendor # <<>> THEN Filter(r0, OfVendor) ELSE r0
    IN  IF pm # <<>> THEN Filter(r1, OfPm) ELSE r1

\* The query strings of the read endpoints, stripped.
JobsRequests ==
    [endpoint : {"/api/metrics/jobs"},
     pm : {<<>>, <<"a", "l">>},
     status : {"", "A"},
     customer : {<<>>, <<"x">>},
     has_budget : {"", "true", "false"},
     sort_by : {"contract", "backlog", "margin", "name"},
     limit : {1, 100},
     exclude_josh : BOOLEAN]

ArRequests ==
    [endpoint : {"/api/metrics/ar"}, customer : {<<>>, <<"x">>}, pm : {<<>>, <<"a", "l">>}]

ApRequests ==
    [endpoint : {"/api/metrics/ap"}, vendor : {<<>>, <<"v">>}, pm : {<<>>, <<"b", "o">>}]

PmRequests == [endpoint : {"/api/metrics/pm"}, pm : {<<>>, <<"a", "l">>, <<"z">>}]

SummaryRequests == [endpoint : {"/api/metrics/summary"}]

\* The jobs the handler of /api/metrics/jobs holds after its sort, lines
\* 4693-4713: sorted() returns a new list and leaves its argument as it was.
api_metrics_jobs_sorted(self, req) ==
    LET has_budget_filter == IF req.has_budget = "true" THEN <<TRUE>>
                             ELSE IF req.has_budget = "false" THEN <<FALSE>>
                             ELSE <<>>
        jobs == filter_jobs(self, req.pm, req.status, req.customer,
                            has_budget_filter, req.exclude_josh)
        Contract(j) == j.contract
        Backlog(j) == j.backlog
        Margin(j) == j.margin
    IN  IF req.sort_by = "contract" THEN SortDesc(jobs, Contract)
        ELSE IF req.sort_by = "backlog" THEN SortDesc(jobs, Backlog)
        ELSE IF req.sort_by = "margin" THEN SortDesc(jobs, Margin)
        ELSE jobs

\* The handler with jobs.sort(...) in the place of sorted(jobs, ...): when no
\* filter applies, jobs is the cached list itself and the cache is reordered.
ApiMetricsJobsSortingInPlace ==
    /\ input = NotRun
    /\ plan = NotRun
    /\ \E req \in JobsRequests :
          LET jobs == api_metrics_jobs_sorted(cache, req)
              cached == /\ ~req.exclude_josh /\ req.pm = <<>> /\ req.status = ""
                        /\ req.customer = <<>> /\ req.has_budget = ""
          IN  /\ input' = req
              /\ output' = [success |-> TRUE,
                            jobs |-> Take(jobs, req.limit),
                            total_count |-> Len(jobs),
                            summary |-> get_jobs_summary(cache.jobs_metrics,
                                                         req.status = "A")]
              /\ cache' = IF cached THEN [cache EXCEPT !.jobs_metrics = jobs]
                          ELSE cache
    /\ UNCHANGED <<queryVars, files, origin, pc, tmp, run, resp, before, solo,
                   started, edits, rpc, rseen>>

\* GET /api/metrics/jobs, server.py lines 4682-4722.
ApiMetricsJobs ==
    /\ input = NotRun
    /\ plan = NotRun
    /\ \E req \in JobsRequests :
          LET jobs == api_metrics_jobs_sorted(cache, req)
          IN  /\ input' = req
              /\ output' = [success |-> TRUE,
                            jobs |-> Take(jobs, req.limit),
                            total_count |-> Len(jobs),
                            summary |-> get_jobs_summary(cache.jobs_metrics,
                                                         req.status = "A")]
    /\ UNCHANGED <<queryVars, cacheVars>>

\* GET /api/metrics/ar, lines 4724-4743.
ApiMetricsAr ==
    /\ input = NotRun
    /\ plan = NotRun
    /\ \E req \in ArRequests :
          /\ input' = req
          /\ output' = [success |-> TRUE,
                        invoices |-> filter_ar(cache, req.customer, req.pm),
                        by_customer |-> cache.ar_by_customer,
                        summary |-> get_ar_summary(cache.ar_metrics)]
    /\ UNCHANGED <<queryVars, cacheVars>>

\* GET /api/metrics/ap, lines 4745-4764.
ApiMetricsAp ==
    /\ input = NotRun
    /\ plan = NotRun
    /\ \E req \in ApRequests :
          /\ input' = req
          /\ output' = [success |-> TRUE,
                        invoices |-> filter_ap(cache, req.vendor, req.pm),
                        by_vendor |-> cache.ap_by_vendor,
                        summary |-> get_ap_summary(cache.ap_metrics)]
    /\ UNCHANGED <<queryVars, cacheVars>>

\* GET /api/metrics/pm, lines 4766-4781.
ApiMetricsPm ==
    /\ input = NotRun
    /\ plan = NotRun
    /\ \E req \in PmRequests :
          LET OfPm(p) == Contains(Lower(p.project_manager), Lower(req.pm))
          IN  /\ input' = req
              /\ output' = [success |-> TRUE,
                            pm_metrics |-> IF req.pm # <<>>
                                           THEN Filter(cache.pm_metrics, OfPm)
                                           ELSE cache.pm_metrics]
    /\ UNCHANGED <<queryVars, cacheVars>>

\* GET /api/metrics/summary, lines 4783-4795.
ApiMetricsSummary ==
    /\ input = NotRun
    /\ plan = NotRun
    /\ \E req \in SummaryRequests :
          /\ input' = req
          /\ output' = [success |-> TRUE,
                        jobs |-> get_jobs_summary(cache.jobs_metrics, TRUE),
                        ar |-> get_ar_summary(cache.ar_metrics),
                        ap |-> get_ap_summary(cache.ap_metrics),
                        last_refresh |-> cache.last_refresh]
    /\ UNCHANGED <<queryVars, cacheVars>>

\* sorted(s, key=Key, reverse=True) where Key yields a tuple of numbers:
\* tuples compare position by position, and equal keys keep their order.
TupleGreater(a, b) ==
    \E k \in 1..Len(a) : a[k] > b[k] /\ \A m \in 1..(k - 1) : a[m] = b[m]

TupleSortDesc(s, Key(_)) ==
    LET rank(i) == 1 + Cardinality({j \in 1..Len(s) :
                        \/ TupleGreater(Key(s[j]), Key(s[i]))
                        \/ Key(s[j]) = Key(s[i]) /\ j < i})
    IN  [p \in 1..Len(s) |-> s[CHOOSE i \in 1..Len(s) : rank(i) = p]]

TupleSortAsc(s, Key(_)) ==
    LET Neg(x) == [k \in 1..Len(Key(x)) |-> -Key(x)[k]]
    IN  TupleSortDesc(s, Neg)

\* str(job_no) of the job numbers the extracts carry.
JobNoText ==
    ("J1" :> <<"J","1">>) @@ ("J2" :> <<"J","2">>) @@ ("J3" :> <<"J","3">>)
        @@ ("J4" :> <<"J","4">>) @@ ("J5" :> <<"J","5">>)
        @@ ("J6" :> <<"J","6">>) @@ ("J7" :> <<"J","7">>)

\* server.py lines 3878-3900.
PAYMENTS_EXCLUDED_VENDORS ==
    { <<"B","r","i","d","g","e"," ","B","a","n","k">>,
      <<"P","a","y","r","o","l","l","4","C","o","n","s","t","r","u","c","t","i","o","n">>,
      <<"M","I","S","C","E","L","L","A","N","E","O","U","S"," ","V","E","N","D","O","R">>,
      <<"M","i","s","c","e","l","l","a","n","e","o","u","s"," ","V","e","n","d","o","r">>,
      <<"D","e","p","a","r","t","m","e","n","t"," ","o","f"," ","t","h","e"," ","T","r","e","a","s","u","r","y">>,
      <<"F","r","a","n","c","h","i","s","e"," ","T","a","x"," ","B","o","a","r","d">>,
      <<"C","h","a","r","l","e","s"," ","S","c","h","w","a","b">>,
      <<"C","o","n","s","t","r","u","c","t","i","o","n"," ","S","t","r","a","t","e","g","i","e","s",","," ","L","L","C">>,
      <<"C","o","n","s","t","r","u","c","t","i","o","n"," ","S","t","r","a","t","e","g","i","e","s">>,
      <<"C","o","n","s","t","r","u","c","t","i","o","n"," ","S","t","r","a","t","e","g","i","e","s"," ","L","L","C">>,
      <<"E","m","p","l","o","y","e","e"," ","F","i","d","u","c","i","a","r","y",","," ","L","L","C">>,
      <<"B","a","n","k"," ","o","f"," ","A","m","e","r","i","c","a">>,
      <<"C","a","p","i","t","a","l"," ","O","n","e">>,
      <<"C","a","l","i","f","o","r","n","i","a","C","h","o","i","c","e">>,
      <<"K","a","i","s","e","r"," ","F","o","u","n","d","a","t","i","o","n"," ","H","e","a","l","t","h"," ","P","l","a","n">>,
      <<"C","o","P","o","w","e","r"," ","O","n","e">>,
      <<"T","r","a","v","e","l"," ","c","o","s","t","s">>,
      <<"M","e","a","l","s"," ","a","n","d"," ","E","n","t","e","r","t","a","i","n","m","e","n","t">>,
      <<"D","o","o","r","D","a","s","h"," ","F","o","o","d"," ","D","e","l","i","v","e","r","y">>,
      <<"C","o","s","t","c","o"," ","W","h","o","l","e","s","a","l","e">>,
      <<"G","a","s","/","o","t","h","e","r"," ","v","e","h","i","c","l","e"," ","e","x","p","e","n","s","e">> }

\* The customer an AR invoice is listed under, server.py lines 4824-4826.
ar_aging_customer(inv) ==
    IF Strip(inv.customer_name) = <<>> THEN UnknownCustomer
    ELSE Strip(inv.customer_name)

\* The vendor an AP invoice is listed under, lines 4327-4329.
ap_aging_vendor(inv) ==
    IF Strip(inv.vendor_name) = <<>> THEN UnknownVendor
    ELSE Strip(inv.vendor_name)

\* The sum of one field over the rows of a view.
aging_totals(rows) ==
    [total_due    |-> SumField(rows, "total_due"),
     current      |-> SumField(rows, "current"),
     days_31_60   |-> SumField(rows, "days_31_60"),
     days_61_90   |-> SumField(rows, "days_61_90"),
     days_90_plus |-> SumField(rows, "days_90_plus"),
     retainage    |-> SumField(rows, "retainage")]

\* One counterparty's row of an aging view: Amount is what the view ages.
aging_row(kept, Name(_), Amount(_), name, name_field) ==
    LET Sum(F(_)) == SumSeq([i \in 1..Len(kept) |->
                        IF Name(kept[i]) = name THEN F(kept[i]) ELSE 0])
        Ret(inv) == inv.retainage
        Cur(inv) == IF inv.aging_bucket = "current" THEN Amount(inv) ELSE 0
        B31(inv) == IF inv.aging_bucket = "days_31_60" THEN Amount(inv) ELSE 0
        B61(inv) == IF inv.aging_bucket = "days_61_90" THEN Amount(inv) ELSE 0
        B90(inv) == IF inv.aging_bucket \notin {"current", "days_31_60", "days_61_90"}
                    THEN Amount(inv) ELSE 0
        sums == [total_due |-> Sum(Amount), current |-> Sum(Cur),
                 days_31_60 |-> Sum(B31), days_61_90 |-> Sum(B61),
                 days_90_plus |-> Sum(B90), retainage |-> Sum(Ret)]
    IN  IF name_field = "customer_name"
        THEN [customer_name |-> name] @@ sums
        ELSE [vendor_name |-> name] @@ sums

\* GET /api/ar-aging, server.py lines 4799-4906: the response computed from
\* the cached AR records. The requests of the model sort by a numeric column.
api_get_ar_aging(self, req) ==
    LET search == Lower(Strip(req.search))
        pm_filter == Strip(req.pm)
        customer_filter == Strip(req.customer)
        Keep(inv) ==
            /\ pm_filter # <<>> =>
                   Lower(Strip(inv.project_manager)) = Lower(pm_filter)
            /\ customer_filter # <<>> =>
                   Lower(ar_aging_customer(inv)) = Lower(customer_filter)
        kept == Filter(self.ar_metrics, Keep)
        names == Keys(kept, ar_aging_customer)
        Coll(inv) == inv.collectible
        customer_aging ==
            [n \in 1..Len(names) |->
                aging_row(kept, ar_aging_customer, Coll, names[n], "customer_name")]
        Found(c) == Contains(Lower(c.customer_name), search)
        customers_list == IF search # <<>> THEN Filter(customer_aging, Found)
                          ELSE customer_aging
        Oldest(x) == <<x.days_90_plus, x.days_61_90, x.days_31_60, x.current,
                       x.retainage>>
        Column(x) == FieldOf(x, req.sortColumn)
        sorted == IF req.sortColumn \in {"days_90_plus", "total_due"}
                  THEN TupleSortDesc(customers_list, Oldest)
                  ELSE IF Lower(req.sortDirection) = <<"d","e","s","c">>
                  THEN SortDesc(customers_list, Column)
                  ELSE SortAsc(customers_list, Column)
    IN  [success |-> TRUE, customers |-> sorted, totals |-> aging_totals(sorted),
         count |-> Len(sorted)]

\* The AP view with the PM exclusion of the PM analysis applied to it.
api_get_ap_aging_excluding_pm(self, req) ==
    LET search == Lower(Strip(req.search))
        job_search == Lower(Strip(req.job))
        pm_filter == Strip(req.pm)
        Keep(inv) ==
            /\ ~Contains(Lower(inv.project_manager), EXCLUDED_PM)
            /\ pm_filter # <<>> => Strip(inv.project_manager) = pm_filter
            /\ job_search # <<>> =>
                   Contains(Lower(JobNoText[inv.job_no]), job_search)
            /\ ap_aging_vendor(inv) \notin PAYMENTS_EXCLUDED_VENDORS
        kept == Filter(self.ap_metrics, Keep)
        names == Keys(kept, ap_aging_vendor)
        ExRet(inv) == IF inv.retainage > 0
                      THEN inv.remaining_balance - inv.retainage
                      ELSE inv.remaining_balance
        vendor_aging ==
            [n \in 1..Len(names) |->
                aging_row(kept, ap_aging_vendor, ExRet, names[n], "vendor_name")]
        Found(v) == Contains(Lower(v.vendor_name), search)
        vendors_list == IF search # <<>> THEN Filter(vendor_aging, Found)
                        ELSE vendor_aging
    IN  [success |-> TRUE, vendors |-> vendors_list,
         totals |-> aging_totals(vendors_list), count |-> Len(vendors_list)]

\* GET /api/ap-aging, server.py lines 4293-4409: the response computed from
\* the cached AP records. The requests of the model sort by a numeric column.
api_get_ap_aging(self, req) ==
    LET search == Lower(Strip(req.search))
        job_search == Lower(Strip(req.job))
        pm_filter == Strip(req.pm)
        Keep(inv) ==
            /\ pm_filter # <<>> => Strip(inv.project_manager) = pm_filter
            /\ job_search # <<>> =>
                   Contains(Lower(JobNoText[inv.job_no]), job_search)
            /\ ap_aging_vendor(inv) \notin PAYMENTS_EXCLUDED_VENDORS
        kept == Filter(self.ap_metrics, Keep)
        names == Keys(kept, ap_aging_vendor)
        ExRet(inv) == IF inv.retainage > 0
                      THEN inv.remaining_balance - inv.retainage
                      ELSE inv.remaining_balance
        vendor_aging ==
            [n \in 1..Len(names) |->
                aging_row(kept, ap_aging_vendor, ExRet, names[n], "vendor_name")]
        Found(v) == Contains(Lower(v.vendor_name), search)
        vendors_list == IF search # <<>> THEN Filter(vendor_aging, Found)
                        ELSE vendor_aging
        reverse == Lower(req.sortDirection) = <<"d","e","s","c">>
        Oldest(x) == <<x.days_90_plus, x.days_61_90, x.days_31_60, x.current>>
        Column(x) == FieldOf(x, req.sortColumn)
        sorted == IF req.sortColumn = "days_90_plus"
                  THEN IF reverse THEN TupleSortDesc(vendors_list, Oldest)
                       ELSE TupleSortAsc(vendors_list, Oldest)
                  ELSE IF reverse THEN SortDesc(vendors_list, Column)
                       ELSE SortAsc(vendors_list, Column)
    IN  [success |-> TRUE, vendors |-> sorted, totals |-> aging_totals(sorted),
         count |-> Len(sorted)]

ArAgingRequests ==
    [endpoint : {"/api/ar-aging"}, search : {<<>>, <<"x">>},
     sortColumn : {"total_due", "retainage"},
     sortDirection : {<<"d","e","s","c">>, <<"a","s","c">>},
     pm : {<<>>, NameJosh, <<"a", "l">>}, customer : {<<>>, <<"x">>}]

ApAgingRequests ==
    [endpoint : {"/api/ap-aging"}, search : {<<>>, <<"v">>},
     job : {<<>>, <<"j", "4">>},
     sortColumn : {"total_due", "days_90_plus"},
     sortDirection : {<<"d","e","s","c">>, <<"a","s","c">>},
     pm : {<<>>, NameJosh, <<"a", "l">>}]

\* GET /api/ar-aging.
ApiGetArAging ==
    /\ input = NotRun
    /\ plan = NotRun
    /\ \E req \in ArAgingRequests :
          /\ input' = req
          /\ output' = api_get_ar_aging(cache, req)
    /\ UNCHANGED <<queryVars, cacheVars>>

\* GET /api/ap-aging.
ApiGetApAging ==
    /\ input = NotRun
    /\ plan = NotRun
    /\ \E req \in ApAgingRequests :
          /\ input' = req
          /\ output' = api_get_ap_aging(cache, req)
    /\ UNCHANGED <<queryVars, cacheVars>>

\* AP invoices of the PM left out of the PM analysis, and of a vendor the
\* payment views leave out.
ApOfExcludedPm == RawAp("P11", VendV, NameJosh, "J5", <<400>>, <<>>, <<400>>)

ApOfPaymentsExcluded ==
    RawAp("P12", <<"B","r","i","d","g","e"," ","B","a","n","k">>, NameJosh, "J5",
          <<250>>, <<>>, <<100>>)

\* The extracts the read requests are served from: those of the queries, and
\* extracts in which the excluded PM has a job, an AR invoice and AP invoices.
ReadFiles ==
    QueryFiles
        \cup {Files(JobsData(<<JobPool[4], JobPool[5]>>),
                    [invoices |-> <<ArPool[2], ArPool[3]>>],
                    [invoices |-> w], "none") :
                 w \in {<<ApPool[1], ApOfExcludedPm>>,
                        <<ApOfExcludedPm, ApOfPaymentsExcluded>>}}

InitRead ==
    /\ ParkedFn
    /\ files \in ReadFiles
    /\ cache = Snapshot(files, 0)
    /\ origin = <<>> /\ pc = <<>> /\ tmp = <<>> /\ run = <<>> /\ resp = <<>>
    /\ before = <<>> /\ solo = <<>> /\ started = 0 /\ edits = 0
    /\ rpc = "idle" /\ rseen = <<>>
    /\ plan = NotRun /\ envelope = NotRun

\* One request of /api/nlq, when no endpoint has been read.
ExecuteNlqQueryOnce == input = NotRun /\ ExecuteNlqQuery

NextRead ==
    \/ ExecuteNlqQueryOnce
    \/ ApiMetricsJobs
    \/ ApiMetricsAr
    \/ ApiMetricsAp
    \/ ApiMetricsPm
    \/ ApiMetricsSummary
    \/ ApiGetArAging
    \/ ApiGetApAging

SpecRead == InitRead /\ [][NextRead]_vars

-----------------------------------------------------------------------------
(* SpecSeq: refresh requests served one after another *)

\* Rows with a malformed numeric field: text where a number belongs.
MalformedJob == RawJob("J8", NameAl, CustX, "A", <<1000>>, NonNumeric)

MalformedAr == RawAr("I9", CustX, NameAl, "J1", <<500>>, NonNumeric, <<100>>)

MalformedAp == RawAp("P9", VendV, NameAl, "J1", <<600>>, <<>>, NonNumeric)

\* AR rows at the edges of the calculator: nothing due, a negative amount due,
\* no amount due, a negative age, and retainage above the amount due.
ArEdgePool ==
    << ArPool[4],
       RawAr("I6", CustX, NameAl, "J1", <<-100>>, <<>>, <<50>>),
       RawAr("I7", CustY, NameBo, "J4", <<>>,     <<>>, <<50>>),
       RawAr("I8", CustX, NameAl, "J1", <<400>>,  <<>>, <<-55>>),
       ArPool[3] >>

\* AP rows at the edges: a negative balance, an internal vendor with a balance,
\* a vendor whose name differs from an excluded one by case only, a negative
\* retainage, and a negative age.
ApEdgePool ==
    << RawAp("P6",  VendV,            NameAl, "J1", <<-50>>, <<>>,     <<100>>),
       ApPool[3],
       RawAp("P7",  VendNearInternal, NameAl, "J1", <<700>>, <<>>,     <<100>>),
       RawAp("P8",  VendW,            NameBo, "J4", <<900>>, <<-100>>, <<100>>),
       RawAp("P10", VendW,            NameBo, "J4", <<300>>, <<>>,     <<-55>>) >>

EdgeExtracts ==
    {Files(ExtractV2.jobs, [invoices |-> w], ExtractV2.ap, "none") :
        w \in Windows(ArEdgePool, MaxInvoices)}
    \cup {Files(ExtractV2.jobs, ExtractV2.ar, [invoices |-> w], "none") :
        w \in Windows(ApEdgePool, MaxInvoices)}

MalformedExtracts ==
    { Files(JobsData(<<JobPool[1], MalformedJob>>), ExtractV2.ar, ExtractV2.ap, "none"),
      Files(ExtractV2.jobs, [invoices |-> <<ArPool[1], MalformedAr>>], ExtractV2.ap, "none"),
      Files(ExtractV2.jobs, ExtractV2.ar, [invoices |-> <<ApPool[1], MalformedAp>>], "none") }

\* A refresh that extends the cached job list where the code replaces it.
refresh_extending(self, f, now) ==
    LET c1 == [self EXCEPT !.jobs_metrics = self.jobs_metrics \o run_jobs_etl(f.jobs.data)]
        c2 == [c1 EXCEPT !.ar_metrics = run_ar_etl(f.ar.data)]
        c3 == [c2 EXCEPT !.ap_metrics = run_ap_etl(f.ap.data)]
        c4 == [c3 EXCEPT !.pm_metrics = aggregate_pm_metrics(c3.jobs_metrics, TRUE)]
        c5 == [c4 EXCEPT !.ar_by_customer = aggregate_ar_by_customer(c4.ar_metrics)]
        c6 == [c5 EXCEPT !.ap_by_vendor = aggregate_ap_by_vendor(c5.ap_metrics)]
        c7 == [c6 EXCEPT !.last_refresh = now]
    IN  IF ~f.jobs.ok \/ run_jobs_etl_raises(f.jobs.data)
        THEN [raised |-> TRUE, cache |-> self]
        ELSE IF ~f.ar.ok \/ run_ar_etl_raises(f.ar.data)
        THEN [raised |-> TRUE, cache |-> c1]
        ELSE IF ~f.ap.ok \/ run_ap_etl_raises(f.ap.data)
        THEN [raised |-> TRUE, cache |-> c2]
        ELSE [raised |-> FALSE, cache |-> c7]

\* MetricsCache.refresh run from its first line to its last with no other
\* request in between: the seven assignments in order. A load that cannot read
\* its file, or a conversion that raises, ends the call where it stands.
refresh(self, f, now) ==
    LET c1 == [self EXCEPT !.jobs_metrics = run_jobs_etl(f.jobs.data)]
        c2 == [c1 EXCEPT !.ar_metrics = run_ar_etl(f.ar.data)]
        c3 == [c2 EXCEPT !.ap_metrics = run_ap_etl(f.ap.data)]
        c4 == [c3 EXCEPT !.pm_metrics = aggregate_pm_metrics(c3.jobs_metrics, TRUE)]
        c5 == [c4 EXCEPT !.ar_by_customer = aggregate_ar_by_customer(c4.ar_metrics)]
        c6 == [c5 EXCEPT !.ap_by_vendor = aggregate_ap_by_vendor(c5.ap_metrics)]
        c7 == [c6 EXCEPT !.last_refresh = now]
    IN  IF ~f.jobs.ok \/ run_jobs_etl_raises(f.jobs.data)
        THEN [raised |-> TRUE, cache |-> self]
        ELSE IF ~f.ar.ok \/ run_ar_etl_raises(f.ar.data)
        THEN [raised |-> TRUE, cache |-> c1]
        ELSE IF ~f.ap.ok \/ run_ap_etl_raises(f.ap.data)
        THEN [raised |-> TRUE, cache |-> c2]
        ELSE [raised |-> FALSE, cache |-> c7]

\* api_refresh_metrics, server.py lines 4663-4680: the response of a call that
\* left the cache c, with the extracts the call read.
refresh_response(raised, c, f) ==
    IF raised
    THEN [success |-> FALSE, read |-> f]
    ELSE [success |-> TRUE, read |-> f, last_refresh |-> c.last_refresh,
          counts |-> [jobs |-> Len(c.jobs_metrics), ar |-> Len(c.ar_metrics),
                      ap |-> Len(c.ap_metrics), pm |-> Len(c.pm_metrics)]]

\* server.py line 380: the server is up, so init_metrics() has returned: the
\* first extracts were readable and well formed. resp is the outcome of the
\* latest refresh, before the cache and the outcome the latest call started from.
InitSeq ==
    /\ files \in QueryFiles \cup EdgeExtracts
    /\ cache = refresh(EmptyCache, files, 0).cache
    /\ resp = refresh_response(FALSE, cache, files)
    /\ before = [cache |-> EmptyCache, resp |-> NoResponse]
    /\ started = 0
    /\ edits = 0
    /\ origin = <<>> /\ pc = <<>> /\ tmp = <<>> /\ run = <<>> /\ solo = <<>>
    /\ rpc = "idle" /\ rseen = <<>>
    /\ ParkedFn
    /\ ParkedQuery

\* The external loader rewrites the extracts between two requests: the next
\* generation (one file may be unreadable), or a row with text in a numeric
\* field.
RewriteExtractsSeq ==
    /\ edits < MaxEdits
    /\ edits' = edits + 1
    /\ files' \in (FileStates \cup MalformedExtracts) \ {files}
    /\ UNCHANGED <<cache, origin, pc, tmp, run, resp, before, solo, started,
                   rpc, rseen, fnVars, queryVars>>

\* POST /api/metrics/refresh, the whole request.
RefreshCall ==
    /\ started < MaxRuns
    /\ started' = started + 1
    /\ LET r == refresh(cache, files, started + 1)
       IN  /\ cache' = r.cache
           /\ resp' = refresh_response(r.raised, r.cache, files)
    /\ before' = [cache |-> cache, resp |-> resp]
    /\ UNCHANGED <<files, origin, pc, tmp, run, solo, edits, rpc, rseen,
                   fnVars, queryVars>>

NextSeq ==
    \/ RewriteExtractsSeq
    \/ RefreshCall

SpecSeq == InitSeq /\ [][NextSeq]_vars

-----------------------------------------------------------------------------
(* SpecPay: get_payments_data called by the request threads.

   The variables hold, under this specification: files the AP invoice file
   (content and readability), cache the global _payments_cache, rpc the state
   of _payments_cache_lock, pc each thread's position inside
   get_payments_data, tmp the invoices a thread has read from the file, resp
   what each thread's last call returned, before the value of _payments_cache
   when the thread's call began, run the number of times the load step was
   entered, origin the number of assignments to _payments_cache, started the
   number of calls made and edits the number of times the file was rewritten. *)

\* The most calls of get_payments_data.
MaxCalls == 3

\* _payments_cache = None, server.py line 3902.
PaymentsNone == [object |-> "None"]

\* try: float(x or 0) except: 0, lines 3946-3964.
payment_number(x) == IF float_raises(x) THEN 0 ELSE Float(x)

\* Lines 3966-3989: one row of the payments list. The invoice date and the job
\* description are left out of the row.
payment_row(inv) ==
    LET invoice_amount == payment_number(Get(inv, "invoice_amount", <<>>))
        retention == payment_number(Get(inv, "retainage_amount", <<>>))
        paid_to_date == payment_number(Get(inv, "amount_paid_to_date", <<>>))
        remaining == payment_number(Get(inv, "remaining_balance", <<>>))
    IN  [vendor |-> Get(inv, "vendor_name", <<>>),
         invoice_no |-> Get(inv, "invoice_no", ""),
         job_no |-> Get(inv, "job_no", ""),
         project_manager |-> Get(inv, "project_manager_name", <<>>),
         non_retention |-> invoice_amount - retention,
         retention |-> retention,
         invoice_amount |-> invoice_amount,
         paid_to_date |-> paid_to_date,
         remaining_balance |-> remaining,
         status |-> Get(inv, "payment_status", "")]

\* Lines 3922-4001: the dict built from the invoices of the file. The vendor
\* is compared with the exclusion list as extracted.
process_payments(invoices) ==
    LET Kept(inv) == Get(inv, "vendor_name", <<>>) \notin PAYMENTS_EXCLUDED_VENDORS
        rows == Map(Filter(invoices, Kept), payment_row)
        unique_vendors == {rows[i].vendor : i \in 1..Len(rows)} \ {<<>>}
    IN  [payments |-> rows,
         metrics |-> [totalCount |-> Len(rows),
                      totalInvoiceAmount |-> SumField(rows, "invoice_amount"),
                      totalRetention |-> SumField(rows, "retention"),
                      totalPaid |-> SumField(rows, "paid_to_date"),
                      totalRemaining |-> SumField(rows, "remaining_balance"),
                      uniqueVendors |-> Cardinality(unique_vendors)]]

\* A dict the function creates: id tells one object from another of equal
\* content. The cached dict has the number of the load that built it; the dict
\* returned after a failed load, line 4013, has the negated number.
payments_object(id, invoices) ==
    [object |-> "dict", id |-> id] @@ process_payments(invoices)

\* The rows of ap_invoices.json as the payments pages read them.
PayRow(ap, amount, paid) ==
    ap @@ [invoice_amount |-> amount, amount_paid_to_date |-> paid,
           payment_status |-> "Open"]

PaymentsV1 ==
    << PayRow(ApPool[1], <<1000>>, <<400>>),
       PayRow(ApOfPaymentsExcluded, <<250>>, <<>>) >>

PaymentsV2 ==
    << PayRow(ApPool[1], <<1000>>, <<400>>),
       PayRow(ApPool[2], NonNumeric, <<>>) >>

PaymentFiles ==
    [ok : BOOLEAN, invoices : {PaymentsV1, PaymentsV2}]

\* The server is up and no page has asked for payments yet.
InitPay ==
    /\ files \in {f \in PaymentFiles : f.invoices = PaymentsV1}
    /\ cache = PaymentsNone
    /\ rpc = "unlocked"
    /\ pc = [t \in Threads |-> "idle"]
    /\ tmp = [t \in Threads |-> <<>>]
    /\ resp = [t \in Threads |-> NoResponse]
    /\ before = [t \in Threads |-> PaymentsNone]
    /\ run = 0
    /\ origin = 0
    /\ started = 0
    /\ edits = 0
    /\ solo = <<>> /\ rseen = <<>>
    /\ ParkedFn
    /\ ParkedQuery

\* The external loader rewrites ap_invoices.json, or leaves it unreadable.
RewritePayments ==
    /\ edits < MaxEdits
    /\ edits' = edits + 1
    /\ files' \in PaymentFiles \ {files}
    /\ UNCHANGED <<cache, origin, pc, tmp, run, resp, before, solo, started,
                   rpc, rseen, fnVars, queryVars>>

\* A request handler calls get_payments_data().
CallGetPaymentsData(t) ==
    /\ pc[t] = "idle"
    /\ started < MaxCalls
    /\ started' = started + 1
    /\ pc' = [pc EXCEPT ![t] = "check"]
    /\ resp' = [resp EXCEPT ![t] = NoResponse]
    /\ before' = [before EXCEPT ![t] = cache]
    /\ UNCHANGED <<files, cache, origin, tmp, run, solo, edits, rpc, rseen,
                   fnVars, queryVars>>

\* Lines 3909-3910: the check made without the lock.
CheckCache(t) ==
    /\ pc[t] = "check"
    /\ IF cache # PaymentsNone
       THEN /\ resp' = [resp EXCEPT ![t] = cache]
            /\ pc' = [pc EXCEPT ![t] = "idle"]
       ELSE /\ pc' = [pc EXCEPT ![t] = "wait"]
            /\ UNCHANGED resp
    /\ UNCHANGED <<files, cache, origin, tmp, run, before, solo, started, edits,
                   rpc, rseen, fnVars, queryVars>>

\* Line 3912: with _payments_cache_lock.
AcquireLock(t) ==
    /\ pc[t] = "wait"
    /\ rpc = "unlocked"
    /\ rpc' = "locked"
    /\ pc' = [pc EXCEPT ![t] = "recheck"]
    /\ UNCHANGED <<files, cache, origin, tmp, run, resp, before, solo, started,
                   edits, rseen, fnVars, queryVars>>

\* The function without its second check: the holder of the lock loads.
RecheckCacheSkipped(t) ==
    /\ pc[t] = "recheck"
    /\ pc' = [pc EXCEPT ![t] = "open"]
    /\ UNCHANGED <<files, cache, origin, tmp, run, resp, before, solo, started,
                   edits, rpc, rseen, fnVars, queryVars>>

\* Lines 3913-3914: the check made again under the lock; returning leaves the
\* with block and releases the lock.
RecheckCache(t) ==
    /\ pc[t] = "recheck"
    /\ IF cache # PaymentsNone
       THEN /\ resp' = [resp EXCEPT ![t] = cache]
            /\ pc' = [pc EXCEPT ![t] = "idle"]
            /\ rpc' = "unlocked"
       ELSE /\ pc' = [pc EXCEPT ![t] = "open"]
            /\ UNCHANGED <<resp, rpc>>
    /\ UNCHANGED <<files, cache, origin, tmp, run, before, solo, started, edits,
                   rseen, fnVars, queryVars>>

\* Lines 3916-3920 and 4008-4013: the file is opened and parsed; when that
\* raises, the handler returns a new empty dict and the cache stays None.
OpenInvoices(t) ==
    /\ pc[t] = "open"
    /\ run' = run + 1
    /\ IF files.ok
       THEN /\ tmp' = [tmp EXCEPT ![t] = files.invoices]
            /\ pc' = [pc EXCEPT ![t] = "process"]
            /\ UNCHANGED <<resp, rpc>>
       ELSE /\ resp' = [resp EXCEPT ![t] = payments_object(0 - (run + 1), <<>>)]
            /\ pc' = [pc EXCEPT ![t] = "idle"]
            /\ rpc' = "unlocked"
            /\ UNCHANGED tmp
    /\ UNCHANGED <<files, cache, origin, before, solo, started, edits, rseen,
                   fnVars, queryVars>>

\* Lines 3922-4006: the invoices are processed, the dict is assigned to
\* _payments_cache and returned.
StorePayments(t) ==
    /\ pc[t] = "process"
    /\ cache' = payments_object(run, tmp[t])
    /\ origin' = origin + 1
    /\ resp' = [resp EXCEPT ![t] = cache']
    /\ tmp' = [tmp EXCEPT ![t] = <<>>]
    /\ pc' = [pc EXCEPT ![t] = "idle"]
    /\ rpc' = "unlocked"
    /\ UNCHANGED <<files, run, before, solo, started, edits, rseen, fnVars,
                   queryVars>>

GetPaymentsData(t) ==
    \/ CallGetPaymentsData(t)
    \/ CheckCache(t)
    \/ AcquireLock(t)
    \/ RecheckCache(t)
    \/ OpenInvoices(t)
    \/ StorePayments(t)

NextPay ==
    \/ RewritePayments
    \/ \E t \in Threads : GetPaymentsData(t)

SpecPay == InitPay /\ [][NextPay]_vars

-----------------------------------------------------------------------------

(* Properties of the cache under concurrent requests, checked under Spec *)

\* C2: a reader that reads several cached collections during one request sees
\* all of them from the same refresh: pm_comparison its PM rows and its AR
\* invoices, the AR page its invoices, its customer rows and the invoices its
\* summary is computed from.
C2_ReaderSeesOneRefresh ==
    rpc = "done" =>
        IF rseen.reader = "pm_comparison"
        THEN rseen.pm_metrics = rseen.ar_metrics
        ELSE /\ rseen.ar_metrics = rseen.ar_by_customer
             /\ rseen.ar_metrics = rseen.summary

\* C3: when a refresh that no other refresh overlaps fails, whichever load it
\* fails in, the trigger reports failure and the cache is as it was before the
\* call; when it succeeds the trigger reports success with the record counts of
\* the snapshot it installed.
C3_FailedRefreshKeepsSnapshot ==
    \A t \in Threads :
        (resp[t].status = "done" /\ solo[t]) =>
            IF resp[t].success
            THEN /\ resp[t].last_refresh = run[t]
                 /\ resp[t].counts.jobs = Len(resp[t].after.jobs_metrics)
                 /\ resp[t].counts.ar = Len(resp[t].after.ar_metrics)
                 /\ resp[t].counts.ap = Len(resp[t].after.ap_metrics)
                 /\ resp[t].counts.pm = Len(resp[t].after.pm_metrics)
            ELSE resp[t].after = before[t]

\* C4: once two refreshes that ran at the same time have both finished, all six
\* collections and last_refresh were written by one and the same run.
C4_RefreshesSerialized ==
    (\A t \in Threads : pc[t] = "idle" /\ resp[t].status = "done" /\ resp[t].success)
        => \E r \in 1..MaxRuns : \A f \in Fields : origin[f] = r

-----------------------------------------------------------------------------
(* Properties of the calculators and aggregators, checked under SpecFn *)

\* value is num/den rounded to the nearest integer (den > 0).
IsRounded(value, num, den) == Abs(value * den - num) * 2 <= den

\* C5: calculate_job_metrics picks the profit basis by lifecycle state. A Closed
\* job has profit = billed - actual_cost, margin = profit/billed*100 when
\* billed > 0 and 0 otherwise, valid_for_profit = (billed > 0 and actual_cost > 0)
\* and basis 'actual'; every other job has profit = contract - revised_cost,
\* margin = profit/contract*100 when contract > 0 and 0 otherwise,
\* valid_for_profit = (contract > 0 and revised_cost > 0) and basis 'projected'.
\* Margins are in hundredths of a percent, rounded to the nearest.
C5_ProfitBasisByLifecycle ==
    output.fn = "calculate_job_metrics" =>
        LET m        == output.result
            actual   == input.actual_cost
            billed   == input.billed
            contract == Float(input.job.revised_contract)
            cost     == Float(input.job.revised_cost)
        IN  IF input.job.job_status = "C"
            THEN /\ m.profit = billed - actual
                 /\ billed > 0 => IsRounded(m.margin, (billed - actual) * 10000, billed)
                 /\ billed <= 0 => m.margin = 0
                 /\ m.valid_for_profit <=> (billed > 0 /\ actual > 0)
                 /\ m.profit_basis = "actual"
            ELSE /\ m.profit = contract - cost
                 /\ contract > 0 => IsRounded(m.margin, (contract - cost) * 10000, contract)
                 /\ contract <= 0 => m.margin = 0
                 /\ m.valid_for_profit <=> (contract > 0 /\ cost > 0)
                 /\ m.profit_basis = "projected"

\* C5 witness: a Closed job billed 900 with actual cost 950 came out with profit
\* -50, margin -5.56% on the actual basis and valid for profit, although its
\* contract (1000) and budget (800) would give a projected margin of 20%.
C5_Witness ==
    /\ output.fn = "calculate_job_metrics"
    /\ input.job.job_status = "C"
    /\ input.billed = 900 /\ input.actual_cost = 950
    /\ input.job.revised_contract = <<1000>> /\ input.job.revised_cost = <<800>>
    /\ output.result.profit = -50
    /\ output.result.margin = -556
    /\ output.result.valid_for_profit
    /\ output.result.profit_basis = "actual"

\* The jobs counted in PM row r, and the ones among them that satisfy P.
RowJobs(job_metrics, r, P(_)) ==
    LET Mine(j) == pm_key(j, TRUE) = r.project_manager /\ P(j)
    IN  Filter(job_metrics, Mine)

\* C6 for one list of rows: each ratio divides by its own denominator count.
RatiosUseOwnDenominators(job_metrics, rows) ==
    \A k \in 1..Len(rows) :
        LET r == rows[k]
            IsValid(j) == j.valid_for_profit
            HasBudget(j) == j.has_budget
            Margin(j) == j.margin
            Profit(j) == j.profit
            Completion(j) == j.percent_complete
            valid == RowJobs(job_metrics, r, IsValid)
            budgeted == RowJobs(job_metrics, r, HasBudget)
        IN  /\ r.jobs_valid_for_profit = Len(valid)
            /\ r.jobs_with_budget = Len(budgeted)
            /\ r.total_profit = SumSeq(Map(valid, Profit))
            /\ IF valid = <<>> THEN r.avg_margin = 0
               ELSE IsRounded(r.avg_margin, SumSeq(Map(valid, Margin)), Len(valid))
            /\ IF budgeted = <<>> THEN r.avg_completion = 0
               ELSE IsRounded(r.avg_completion, SumSeq(Map(budgeted, Completion)),
                              Len(budgeted))

\* C6: in every PM summary row and in the jobs summary avg_margin is the sum of
\* margin over the valid_for_profit jobs divided by their number, avg_completion
\* the sum of percent_complete over the has_budget jobs divided by their number,
\* each 0 when its denominator is 0, and total_profit sums only valid_for_profit
\* jobs; dropping the jobs that are not valid_for_profit changes neither
\* avg_margin nor total_profit.
C6_RatiosUseOwnDenominators ==
    LET IsValid(j) == j.valid_for_profit
        HasBudget(j) == j.has_budget
        Margin(j) == j.margin
        Profit(j) == j.profit
        Completion(j) == j.percent_complete
    IN  /\ output.fn = "aggregate_pm_metrics" =>
            LET rows == output.result
                onlyValid == aggregate_pm_metrics(Filter(output.job_metrics, IsValid), TRUE)
            IN  /\ RatiosUseOwnDenominators(output.job_metrics, rows)
                /\ \A k \in 1..Len(rows) :
                       IF rows[k].jobs_valid_for_profit = 0
                       THEN rows[k].avg_margin = 0 /\ rows[k].total_profit = 0
                       ELSE \E n \in 1..Len(onlyValid) :
                               /\ onlyValid[n].project_manager = rows[k].project_manager
                               /\ onlyValid[n].avg_margin = rows[k].avg_margin
                               /\ onlyValid[n].total_profit = rows[k].total_profit
        /\ output.fn = "get_jobs_summary" =>
            LET s == output.result
                IsActive(j) == j.job_status = "A"
                jobs == IF input.active_only THEN Filter(output.job_metrics, IsActive)
                        ELSE output.job_metrics
                valid == Filter(jobs, IsValid)
                budgeted == Filter(jobs, HasBudget)
                onlyValid == get_jobs_summary(valid, input.active_only)
            IN  /\ s.jobs_valid_for_profit = Len(valid)
                /\ s.total_profit = SumSeq(Map(valid, Profit))
                /\ IF valid = <<>> THEN s.avg_margin = 0
                   ELSE IsRounded(s.avg_margin, SumSeq(Map(valid, Margin)), Len(valid))
                /\ IF budgeted = <<>> THEN s.avg_completion = 0
                   ELSE IsRounded(s.avg_completion, SumSeq(Map(budgeted, Completion)),
                                  Len(budgeted))
                /\ onlyValid.avg_margin = s.avg_margin
                /\ onlyValid.total_profit = s.total_profit

\* C6 witness (Scenario E): a PM with valid jobs of margin 10% and 30% and a third
\* job that is not valid for profit has avg_margin 20% over 3 jobs.
C6_Witness ==
    /\ output.fn = "aggregate_pm_metrics"
    /\ \E k \in 1..Len(output.result) :
          /\ output.result[k].total_jobs = 3
          /\ output.result[k].jobs_valid_for_profit = 2
          /\ output.result[k].avg_margin = 2000
          /\ \E i, j \in 1..Len(output.job_metrics) :
                /\ output.job_metrics[i].margin = 1000
                /\ output.job_metrics[j].margin = 3000

-----------------------------------------------------------------------------
(* Properties of the query executor, checked under SpecQuery *)

\* The envelope the request in progress would have got with another limit.
WithLimit(l) ==
    execute_nlq_query([k \in DOMAIN plan \ {"limit"} |-> plan[k]] @@ l,
                      load_nlq_data(files), cache)

\* Every limit a plan can carry in the model, and one that exceeds any
\* population.
AllLimits == LimitChoices \cup {[limit |-> <<MaxLimit + MaxJobs + MaxInvoices>>]}

\* Every field of an envelope but the page of items and the note about it.
Totals(env) == [k \in DOMAIN env \ {"items", "note"} |-> env[k]]

\* C1: totals before limit. Whatever limit the plan carries, every total, count
\* and average field of the envelope has the value it has under any other
\* limit, on every target, verb and filter set; only items (and the note
\* about them) depend on the limit.
C1_TotalsBeforeLimit ==
    plan # NotRun => \A l \in AllLimits : Totals(WithLimit(l)) = Totals(envelope)

\* A page of one job out of three, whose contract total is that of all three.
C1_Witness ==
    /\ plan # NotRun
    /\ Get(plan, "target_data", "") = "jobs"
    /\ Get(plan, "aggregation", "list") = "top"
    /\ Get(plan, "limit", <<>>) = <<1>>
    /\ Len(envelope.items) = 1
    /\ envelope.total_count = 3
    /\ envelope.total_contract > SumField(envelope.items, "contract")

\* What the executor knows: its targets, the verbs of any target, and the
\* filter fields any target reads.
KnownTargets ==
    {"jobs", "ar", "ap", "gl", "pm_summary", "pm_comparison", "cash",
     "job_detail", "cost_codes", "customers"}

KnownVerbs ==
    JobsVerbs \cup ArVerbs \cup ApVerbs \cup PmSummaryVerbs \cup CostCodeVerbs
        \cup {"by_month", "by_year", "balance", "transactions"}

KnownFilterFields ==
    {"job_no", "pm", "status", "customer", "min_days", "max_days", "vendor",
     "cost_code", "year", "account_range", "date_range"}

InvalidPlan(query_plan) ==
    \/ Get(query_plan, "target_data", "") \notin KnownTargets
    \/ Has(query_plan, "aggregation") /\ query_plan.aggregation \notin KnownVerbs
    \/ \E k \in DOMAIN Get(query_plan, "filters", <<>>) : k \notin KnownFilterFields

\* C7: a plan that names an unknown target, an unknown filter field or an
\* unknown verb gets an error envelope; it is not executed.
C7_InvalidPlanRejected ==
    (plan # NotRun /\ InvalidPlan(plan)) => Has(envelope, "error")

\* A value rounded to one decimal (tenths) agrees with the same value rounded
\* to two decimals (hundredths).
SameToOneDecimal(tenths, hundredths) == Abs(tenths * 10 - hundredths) <= 5

\* C8: for target jobs and verb by_pm, every PM row of the envelope has the
\* margin, completion, earned revenue and backlog that aggregate_pm_metrics
\* computes for that PM over the same filtered jobs.
C8_ByPmReusesAggregator ==
    (/\ plan # NotRun
     /\ Get(plan, "target_data", "") = "jobs"
     /\ Get(plan, "aggregation", "list") = "by_pm") =>
        LET rows == aggregate_pm_metrics(
                        jobs_matching(cache.jobs_metrics, Get(plan, "filters", <<>>)),
                        TRUE)
        IN  \A i \in 1..Len(envelope.items) :
                \E r \in 1..Len(rows) :
                    /\ rows[r].project_manager = Strip(envelope.items[i].pm)
                    /\ SameToOneDecimal(envelope.items[i].margin, rows[r].avg_margin)
                    /\ SameToOneDecimal(envelope.items[i].avg_completion,
                                        rows[r].avg_completion)
                    /\ envelope.items[i].earned_revenue = rows[r].total_earned_revenue
                    /\ envelope.items[i].backlog = rows[r].total_backlog

\* C9: every envelope with an items list also carries fields about the whole
\* filtered population and a note that says how many of how many are shown.
C9_ItemsEnvelopeHasTotalsAndNote ==
    (plan # NotRun /\ Has(envelope, "items")) =>
        /\ DOMAIN envelope \ {"items", "note", "sort_by"} # {}
        /\ Has(envelope, "note")
        /\ envelope.note.kind = "showing"

\* C10: in a 'Showing N of M' note, N is the number of items returned and M
\* the size of the filtered population (the number of items the same plan
\* returns with no limit), whatever limit the plan carries.
C10_NoteCountsMatchItems ==
    (plan # NotRun /\ Has(envelope, "note") /\ envelope.note.kind = "showing") =>
        /\ envelope.note.shown = Len(envelope.items)
        /\ envelope.note.of = Len(WithLimit([limit |-> <<>>]).items)

-----------------------------------------------------------------------------
(* Properties of successive refreshes, checked under SpecSeq *)

\* The six cached collections.
Collections == Fields \ {"last_refresh"}

\* The latest refresh and the one before it both succeeded and read the same
\* extracts.
RefreshedTwiceUnchanged ==
    /\ started >= 1
    /\ resp.success
    /\ before.resp.success
    /\ before.resp.read = resp.read

\* C11: refresh is idempotent. When two successive refresh calls read the same
\* extracts, the six cached collections after the second call have the contents
\* and the order they had after the first, and the jobs, AR and AP summaries
\* are equal; only last_refresh may differ.
C11_RefreshIdempotent ==
    RefreshedTwiceUnchanged =>
        /\ \A c \in Collections : cache[c] = before.cache[c]
        /\ \A active_only \in BOOLEAN :
              get_jobs_summary(cache.jobs_metrics, active_only)
                  = get_jobs_summary(before.cache.jobs_metrics, active_only)
        /\ get_ar_summary(cache.ar_metrics) = get_ar_summary(before.cache.ar_metrics)
        /\ get_ap_summary(cache.ap_metrics) = get_ap_summary(before.cache.ap_metrics)

\* C11 witness: a second request refreshed a cache of several jobs, invoices and
\* customer rows from the extracts the first had read, and took a new timestamp.
C11_Witness ==
    /\ RefreshedTwiceUnchanged
    /\ started = 2
    /\ Len(cache.jobs_metrics) >= 2
    /\ Len(cache.ar_by_customer) >= 2
    /\ cache.ap_by_vendor # <<>>
    /\ cache.last_refresh # before.cache.last_refresh

-----------------------------------------------------------------------------
(* Properties of the invoice calculators, checked under SpecFn *)

\* The call of an invoice calculator has returned a record.
InvoiceProduced ==
    /\ output # NotRun
    /\ output.fn \in {"calculate_ar_invoice_metrics", "calculate_ap_invoice_metrics"}
    /\ output.result # NoRecord

AgingBuckets == {"current", "days_31_60", "days_61_90", "days_90_plus"}

\* C12: the aging bucket of an AR or AP record is decided by its integer
\* days_outstanding alone, with boundaries at 30, 60 and 90: up to 30 current,
\* 31 to 60 days_31_60, 61 to 90 days_61_90, above 90 days_90_plus; every
\* produced record carries exactly one of the four buckets.
C12_AgingBucketBoundaries ==
    InvoiceProduced =>
        LET d == output.result.days_outstanding
            b == output.result.aging_bucket
        IN  /\ b \in AgingBuckets
            /\ (b = "current") <=> (d <= 30)
            /\ (b = "days_31_60") <=> (31 <= d /\ d <= 60)
            /\ (b = "days_61_90") <=> (61 <= d /\ d <= 90)
            /\ (b = "days_90_plus") <=> (91 <= d)

\* C12 witness: an AP invoice exactly 90 days old came out in days_61_90.
C12_Witness ==
    /\ InvoiceProduced
    /\ output.fn = "calculate_ap_invoice_metrics"
    /\ input.invoice.days_outstanding = <<900>>
    /\ output.result.days_outstanding = 90
    /\ output.result.aging_bucket = "days_61_90"

-----------------------------------------------------------------------------
(* Properties of the cached invoices, checked under SpecSeq *)

\* The raw AR invoices the latest refresh read, and those with something due.
ArRead == resp.read.ar.data.invoices

ArOpen == {i \in 1..Len(ArRead) : Float(ArRead[i].calculated_amount_due) > 0}

InvoiceCount(row) == row.invoice_count

\* C13: after any sequence of refreshes every cached AR record has
\* calculated_amount_due > 0. An AR invoice whose amount due is 0, negative or
\* missing produces no record: after a successful refresh it is in no cached
\* record, and the AR summary and the customer rows count the other invoices only.
C13_ArExcludesNothingDue ==
    /\ \A i \in 1..Len(cache.ar_metrics) :
          cache.ar_metrics[i].calculated_amount_due > 0
    /\ resp.success =>
          /\ \A i \in 1..Len(cache.ar_metrics) :
                \E k \in ArOpen : ArRead[k].invoice_no = cache.ar_metrics[i].invoice_no
          /\ Len(cache.ar_metrics) = Cardinality(ArOpen)
          /\ get_ar_summary(cache.ar_metrics).total_invoices = Cardinality(ArOpen)
          /\ SumSeq(Map(cache.ar_by_customer, InvoiceCount)) = Cardinality(ArOpen)

\* C13 witness: the second refresh request read an invoice with no amount due
\* beside one with 400.00 due, and cached the one record.
C13_Witness ==
    /\ started = 2
    /\ resp.success
    /\ Len(ArRead) = 2
    /\ \E i \in 1..2 : ArRead[i].calculated_amount_due = <<>>
    /\ Len(cache.ar_metrics) = 1
    /\ cache.ar_metrics[1].calculated_amount_due = 400

\* The raw AP invoices the latest refresh read, and those of them that are
\* unpaid and owed to a vendor outside the exclusion list.
ApRead == resp.read.ap.data.invoices

ApOpen ==
    {i \in 1..Len(ApRead) :
        /\ Float(ApRead[i].remaining_balance) > 0
        /\ Strip(ApRead[i].vendor_name) \notin EXCLUDED_AP_VENDORS}

\* C14: no cached AP record has remaining_balance <= 0 or a vendor name that,
\* trimmed, equals an entry of the internal-vendor list, and no vendor row is
\* such a vendor's. After a successful refresh the cached AP records are the
\* invoices read that are unpaid and not of an excluded vendor: an excluded
\* vendor's invoice is left out whatever its balance, a vendor whose name
\* differs from every entry is kept.
C14_ApExcludesPaidAndInternal ==
    /\ \A i \in 1..Len(cache.ap_metrics) :
          /\ cache.ap_metrics[i].remaining_balance > 0
          /\ Strip(cache.ap_metrics[i].vendor_name) \notin EXCLUDED_AP_VENDORS
    /\ \A i \in 1..Len(cache.ap_by_vendor) :
          Strip(cache.ap_by_vendor[i].vendor_name) \notin EXCLUDED_AP_VENDORS
    /\ resp.success =>
          /\ \A i \in 1..Len(cache.ap_metrics) :
                \E k \in ApOpen : ApRead[k].invoice_no = cache.ap_metrics[i].invoice_no
          /\ Len(cache.ap_metrics) = Cardinality(ApOpen)
          /\ SumSeq(Map(cache.ap_by_vendor, InvoiceCount)) = Cardinality(ApOpen)

\* C14 witness: the second refresh request read an internal vendor's invoice
\* with a balance of 5000.00, its name padded with spaces, beside the invoice of
\* a vendor named alike in another case, and cached the second only.
C14_Witness ==
    /\ started = 2
    /\ resp.success
    /\ Len(ApRead) = 2
    /\ ApRead[1].vendor_name = VendInternalPadded
    /\ ApRead[1].remaining_balance = <<5000>>
    /\ Len(cache.ap_metrics) = 1
    /\ cache.ap_metrics[1].vendor_name = VendNearInternal
    /\ Len(cache.ap_by_vendor) = 1

-----------------------------------------------------------------------------
(* Further properties of the invoice calculators, checked under SpecFn *)

\* C15: every AR and AP record a calculator produces has an integer
\* days_outstanding >= 0, and every AR record has collectible equal to
\* max(0, calculated_amount_due - retainage), so collectible >= 0; this for
\* every raw input, a negative raw days_outstanding and a retainage above the
\* amount due included.
C15_DaysAndCollectibleNonNegative ==
    InvoiceProduced =>
        /\ output.result.days_outstanding \in Nat
        /\ output.fn = "calculate_ar_invoice_metrics" =>
              /\ output.result.collectible
                    = Max(0, output.result.calculated_amount_due
                                 - output.result.retainage)
              /\ output.result.collectible >= 0

\* The part of C15 about collectible, which holds on its own.
CollectibleNonNegative ==
    (InvoiceProduced /\ output.fn = "calculate_ar_invoice_metrics") =>
        /\ output.result.collectible
              = Max(0, Float(input.invoice.calculated_amount_due)
                           - Float(input.invoice.retainage_amount))
        /\ output.result.collectible >= 0

-----------------------------------------------------------------------------
(* Properties of the aggregated ages, checked under SpecSeq *)

\* sum(amount_i * days_i) / sum(amount_i) over records, to one decimal (in
\* tenths of a day); 0 when the sum of the amounts is not positive.
AmountWeightedDays(records, amount_field) ==
    LET total == SumSeq([i \in 1..Len(records) |-> records[i][amount_field]])
        weighted == SumSeq([i \in 1..Len(records) |->
                        records[i][amount_field] * records[i].days_outstanding])
    IN  IF total > 0 THEN RoundDiv(weighted * 10, total) ELSE 0

\* The cached invoices a customer row or a vendor row is made from.
InvoicesOfCustomer(name) ==
    LET Mine(inv) == customer_key(inv) = name
    IN  Filter(cache.ar_metrics, Mine)

InvoicesOfVendor(name) ==
    LET Mine(inv) == vendor_key(inv) = name
    IN  Filter(cache.ap_metrics, Mine)

\* The AR half of C16: customer rows and the AR summary weigh by collectible
\* and divide by the sum of collectible.
ArAgesAreWeightedMeans ==
    resp.success =>
        /\ \A i \in 1..Len(cache.ar_by_customer) :
              cache.ar_by_customer[i].avg_days_outstanding
                  = AmountWeightedDays(
                        InvoicesOfCustomer(cache.ar_by_customer[i].customer_name),
                        "collectible")
        /\ get_ar_summary(cache.ar_metrics).avg_days_outstanding
              = AmountWeightedDays(cache.ar_metrics, "collectible")

\* The AP half of C16: vendor rows and the AP summary weigh by
\* amount_ex_retainage and divide by the sum of amount_ex_retainage.
ApAgesAreWeightedMeans ==
    resp.success =>
        /\ \A i \in 1..Len(cache.ap_by_vendor) :
              cache.ap_by_vendor[i].avg_days_outstanding
                  = AmountWeightedDays(
                        InvoicesOfVendor(cache.ap_by_vendor[i].vendor_name),
                        "amount_ex_retainage")
        /\ get_ap_summary(cache.ap_metrics).avg_days_outstanding
              = AmountWeightedDays(cache.ap_metrics, "amount_ex_retainage")

\* C16: avg_days_outstanding of every customer row, of every vendor row and of
\* the AR and AP summaries is sum(amount_i * days_i) / sum(amount_i), where the
\* denominator is the sum of the very per-invoice amounts used as weights
\* (collectible for AR, amount_ex_retainage for AP), and it is 0 when that sum
\* is not positive.
C16_AvgDaysDividesByItsWeights ==
    ArAgesAreWeightedMeans /\ ApAgesAreWeightedMeans

\* The AP half holds whenever no cached AP invoice has a negative retainage.
ApAgesAreWeightedMeansUnlessCredit ==
    (\A i \in 1..Len(cache.ap_metrics) : cache.ap_metrics[i].retainage >= 0)
        => ApAgesAreWeightedMeans

-----------------------------------------------------------------------------
(* Properties of the job calculator's progress figures, checked under SpecFn *)

\* The formulas of C17 for the job the calculator was applied to: percentages
\* in hundredths of a percent and money in cents, each the rounding of the
\* quotient the code computes.
JobProgressFormulas ==
    LET m        == output.result
        actual   == input.actual_cost
        billed   == input.billed
        contract == Float(input.job.revised_contract)
        cost     == Float(input.job.revised_cost)
    IN  /\ 0 <= m.percent_complete /\ m.percent_complete <= 10000
        /\ IF cost > 0
           THEN /\ actual >= cost => m.percent_complete = 10000
                /\ actual < cost => IsRounded(m.percent_complete, actual * 10000, cost)
                /\ IsRounded(m.earned_revenue, actual * contract, cost)
                /\ IsRounded(m.backlog, contract * cost - actual * contract, cost)
                /\ IsRounded(m.over_under_billing,
                             billed * cost - actual * contract, cost)
           ELSE /\ m.percent_complete = 0
                /\ m.earned_revenue = 0
                /\ m.backlog = contract
                /\ m.over_under_billing = billed

-----------------------------------------------------------------------------
(* Properties of refreshes over malformed rows, checked under SpecSeq *)

\* load_json_file could read each of the three extracts of f.
Readable(f) == f.jobs.ok /\ f.ar.ok /\ f.ap.ok

\* A raw numeric field as the claim has it coerced: its number, or 0 when it is
\* missing, null, empty or text.
Coerced(x) == IF Len(x) = 1 THEN x[1] ELSE 0

\* C18: a numeric field that is missing, null, empty or a non-numeric string
\* makes no calculator raise and counts as 0, so a refresh over readable
\* extracts holding such a record completes successfully, and every cached job
\* carries the coerced contract and budget of its row.
C18_MalformedFieldsCoerced ==
    (started >= 1 /\ Readable(resp.read)) =>
        /\ resp.success
        /\ LET rows == resp.read.jobs.data.job_budgets
           IN  /\ Len(cache.jobs_metrics) = Len(rows)
               /\ \A i \in 1..Len(rows) :
                     /\ cache.jobs_metrics[i].contract = Coerced(rows[i].revised_contract)
                     /\ cache.jobs_metrics[i].budget_cost = Coerced(rows[i].revised_cost)

\* The part of C18 that holds: fields that are missing, null or empty count as
\* 0 and the refresh succeeds; only text in a numeric field makes it fail.
MissingFieldsCoerced ==
    (started >= 1 /\ Readable(resp.read)) =>
        /\ resp.success <=> resp.read \notin MalformedExtracts
        /\ resp.success =>
              \A i \in 1..Len(resp.read.jobs.data.job_budgets) :
                 LET row == resp.read.jobs.data.job_budgets[i]
                 IN  /\ cache.jobs_metrics[i].contract = Coerced(row.revised_contract)
                     /\ cache.jobs_metrics[i].budget_cost = Coerced(row.revised_cost)

-----------------------------------------------------------------------------
(* Properties of the requests that read the cache, checked under SpecRead *)

\* C19: executing a query plan, and serving /api/metrics/jobs, /ar, /ap, /pm and
\* /summary through filter_jobs, filter_ar and filter_ap, leaves every cached
\* collection as it was: the same members, field values and order.
C19_ReadsLeaveCacheUnchanged == [][cache' = cache]_vars

\* C19 witness: /api/metrics/jobs was served with no filter and exclude_josh
\* off, so the handler held the cached list itself, and answered with the jobs
\* in another order than the cached one, which is still as the refresh left it.
C19_Witness ==
    /\ input # NotRun
    /\ input.endpoint = "/api/metrics/jobs"
    /\ ~input.exclude_josh /\ input.pm = <<>> /\ input.status = ""
    /\ input.customer = <<>> /\ input.has_budget = ""
    /\ input.limit >= Len(cache.jobs_metrics)
    /\ output.total_count = Len(cache.jobs_metrics)
    /\ output.jobs # cache.jobs_metrics
    /\ cache = Snapshot(files, 0)

-----------------------------------------------------------------------------
(* Properties of empty matches, checked under SpecQuery *)

\* The plan was executed on a target served from the cache and its filters
\* matched no record there.
MatchedNothing ==
    /\ plan # NotRun
    /\ LET target == Get(plan, "target_data", "")
           filters == Get(plan, "filters", <<>>)
           Matches(p) == pm_matches(p.pm, filters.pm)
       IN  CASE target = "jobs" -> jobs_filtered(cache.jobs_metrics, filters) = <<>>
             [] target = "ar" -> ar_filtered(cache.ar_metrics, filters) = <<>>
             [] target = "ap" -> ap_filtered(cache.ap_metrics, filters) = <<>>
             [] target = "pm_summary" ->
                    IF HasName(filters, "pm")
                    THEN Filter(pm_list_of(cache.pm_metrics), Matches) = <<>>
                    ELSE cache.pm_metrics = <<>>
             [] OTHER -> FALSE

\* The envelope fields that hold a list.
ListFields == {"items", "top5_customers", "top5_vendors"}

\* The envelope fields that name a field or carry the note.
LabelFields == {"sort_by", "field", "note"}

\* C20: a plan whose filters match no record is not an error. For each of the
\* targets jobs, ar, ap and pm_summary and every verb, the envelope has no
\* error field, every list in it is empty, and every total, count and average
\* is 0, the counts of its note included.
C20_EmptyMatchIsNotAnError ==
    MatchedNothing =>
        /\ ~Has(envelope, "error")
        /\ \A k \in DOMAIN envelope \cap ListFields : envelope[k] = <<>>
        /\ \A k \in DOMAIN envelope \ (ListFields \cup LabelFields) : envelope[k] = 0
        /\ Has(envelope, "note") =>
              IF envelope.note.kind = "showing"
              THEN envelope.note.shown = 0 /\ envelope.note.of = 0
              ELSE envelope.note.excluded = 0

\* C20 witness: the average margin was asked of a cache that holds jobs, for a
\* PM none of them has, and the envelope reports an average of 0 over 0 jobs.
C20_Witness ==
    /\ MatchedNothing
    /\ plan.target_data = "jobs"
    /\ Get(plan, "aggregation", "") = "average"
    /\ HasName(Get(plan, "filters", <<>>), "pm")
    /\ cache.jobs_metrics # <<>>
    /\ envelope.average = 0
    /\ envelope.jobs_counted = 0

-----------------------------------------------------------------------------
(* Properties of the grouped sums, checked under SpecQuery *)

\* The plans whose verb groups by a dimension and sums a monetary field.
GroupedSums ==
    {<<"ar", "by_customer">>, <<"ap", "by_vendor">>,
     <<"jobs", "by_customer">>, <<"jobs", "by_pm">>}

GroupedSumRan ==
    /\ plan # NotRun
    /\ <<Get(plan, "target_data", ""), Get(plan, "aggregation", "list")>>
           \in GroupedSums

\* C21: whenever the executor groups by a dimension and sums a monetary field
\* (ar by_customer, ap by_vendor, jobs by_customer, jobs by_pm) the envelope
\* also reports the share of the grand total held by the five largest groups,
\* between 0 and 100 percent.
C21_GroupedSumReportsConcentration ==
    GroupedSumRan =>
        /\ Has(envelope, "top5_concentration_pct")
        /\ envelope.top5_concentration_pct \in 0..1000

\* Where the share is reported (the sum verb of ar and ap) it lies between 0
\* and 100 percent, and it is 100 percent when the total is positive: the
\* populations of the model hold at most five groups.
ReportedConcentrationInRange ==
    (plan # NotRun /\ Has(envelope, "top5_concentration_pct")) =>
        /\ envelope.top5_concentration_pct \in 0..1000
        /\ Get(envelope, "collectible", Get(envelope, "total", 0)) > 0 =>
               envelope.top5_concentration_pct = 1000

-----------------------------------------------------------------------------
(* Properties of the aggregators' keys, checked under SpecSeq *)

\* The cached records of a collection whose name, trimmed, is the given one.
RecordsNamed(records, field, name) ==
    {i \in 1..Len(records) : Strip(records[i][field]) = name}

RecordsWithName(records, field) ==
    {i \in 1..Len(records) : Strip(records[i][field]) # <<>>}

\* C22: all three aggregators key their rows by the trimmed name and drop the
\* records whose trimmed name is empty: every PM, customer and vendor row is
\* named by the non-empty trimmed name of a cached record and counts the
\* records of that trimmed name, and the records with an empty name are counted
\* in no row.
C22_AggregatorsDropEmptyNames ==
    resp.success =>
        /\ \A r \in 1..Len(cache.pm_metrics) :
              LET row == cache.pm_metrics[r]
                  mine == RecordsNamed(cache.jobs_metrics, "project_manager",
                                       row.project_manager)
              IN  /\ row.project_manager # <<>>
                  /\ mine # {}
                  /\ row.total_jobs = Cardinality(mine)
        /\ \A r \in 1..Len(cache.ar_by_customer) :
              LET row == cache.ar_by_customer[r]
                  mine == RecordsNamed(cache.ar_metrics, "customer_name",
                                       row.customer_name)
              IN  /\ row.customer_name # <<>>
                  /\ mine # {}
                  /\ row.invoice_count = Cardinality(mine)
        /\ SumSeq(Map(cache.ar_by_customer, InvoiceCount))
               = Cardinality(RecordsWithName(cache.ar_metrics, "customer_name"))
        /\ \A r \in 1..Len(cache.ap_by_vendor) :
              LET row == cache.ap_by_vendor[r]
                  mine == RecordsNamed(cache.ap_metrics, "vendor_name",
                                       row.vendor_name)
              IN  /\ row.vendor_name # <<>>
                  /\ mine # {}
                  /\ row.invoice_count = Cardinality(mine)
        /\ SumSeq(Map(cache.ap_by_vendor, InvoiceCount))
               = Cardinality(RecordsWithName(cache.ap_metrics, "vendor_name"))

\* The part of C22 that holds: the PM aggregator drops the jobs without a
\* project manager, and jobs whose PM names differ only in surrounding
\* whitespace share a row.
PmRowsKeyedByTrimmedName ==
    resp.success =>
        \A r \in 1..Len(cache.pm_metrics) :
            LET row == cache.pm_metrics[r]
                mine == RecordsNamed(cache.jobs_metrics, "project_manager",
                                     row.project_manager)
            IN  /\ row.project_manager # <<>>
                /\ row.project_manager = Strip(row.project_manager)
                /\ row.total_jobs = Cardinality(mine)

-----------------------------------------------------------------------------
(* Properties of the PM exclusion, checked under SpecRead *)

OfExcludedPm(inv) == Contains(Lower(inv.project_manager), EXCLUDED_PM)

\* The sum of a field over the records that satisfy P.
SumWhere(records, field, P(_)) ==
    SumSeq([i \in 1..Len(records) |->
               IF P(records[i]) THEN records[i][field] ELSE 0])

\* What the AP views age: the balance less a positive retainage.
ApAged(records) ==
    [i \in 1..Len(records) |->
        [records[i] EXCEPT !.amount_ex_retainage =
            IF records[i].retainage > 0
            THEN records[i].remaining_balance - records[i].retainage
            ELSE records[i].remaining_balance]]

\* The cached invoices a request of an aging view asks for, whoever their PM.
AskedOfArAging(inv) ==
    /\ Strip(input.pm) # <<>> =>
           Lower(Strip(inv.project_manager)) = Lower(Strip(input.pm))
    /\ Strip(input.customer) # <<>> =>
           Lower(ar_aging_customer(inv)) = Lower(Strip(input.customer))
    /\ Contains(Lower(ar_aging_customer(inv)), Lower(Strip(input.search)))

AskedOfApAging(inv) ==
    /\ Strip(input.pm) # <<>> => Strip(inv.project_manager) = Strip(input.pm)
    /\ Contains(Lower(JobNoText[inv.job_no]), Lower(Strip(input.job)))
    /\ Contains(Lower(ap_aging_vendor(inv)), Lower(Strip(input.search)))
    /\ ap_aging_vendor(inv) \notin PAYMENTS_EXCLUDED_VENDORS

\* C23: the exclusion of the named PM applies to the PM aggregation only. No
\* PM row of the cache has a name that contains the excluded name in any case.
\* The AR and AP invoices of that PM are cached, their customer's and vendor's
\* summary rows count and sum them with the other invoices of the counterparty,
\* and the AR and AP aging views list them under their counterparty and in the
\* totals with the other invoices the request asks for.
C23_ExclusionOnlyInPmAggregation ==
    /\ \A r \in 1..Len(cache.pm_metrics) :
          ~Contains(Lower(cache.pm_metrics[r].project_manager), EXCLUDED_PM)
    /\ \A k \in 1..Len(files.ar.data.invoices) :
          LET raw == files.ar.data.invoices[k]
          IN  (/\ Contains(Lower(raw.project_manager_name), EXCLUDED_PM)
               /\ Float(raw.calculated_amount_due) > 0) =>
                  \E i \in 1..Len(cache.ar_metrics) :
                      /\ cache.ar_metrics[i].invoice_no = raw.invoice_no
                      /\ OfExcludedPm(cache.ar_metrics[i])
    /\ \A k \in 1..Len(files.ap.data.invoices) :
          LET raw == files.ap.data.invoices[k]
          IN  (/\ Contains(Lower(raw.project_manager_name), EXCLUDED_PM)
               /\ Float(raw.remaining_balance) > 0
               /\ Strip(raw.vendor_name) \notin EXCLUDED_AP_VENDORS) =>
                  \E i \in 1..Len(cache.ap_metrics) :
                      /\ cache.ap_metrics[i].invoice_no = raw.invoice_no
                      /\ OfExcludedPm(cache.ap_metrics[i])
    /\ \A i \in 1..Len(cache.ar_metrics) :
          LET inv == cache.ar_metrics[i]
              Same(x) == customer_key(x) = customer_key(inv)
          IN  OfExcludedPm(inv) =>
                  \E r \in 1..Len(cache.ar_by_customer) :
                      LET row == cache.ar_by_customer[r]
                      IN  /\ row.customer_name = customer_key(inv)
                          /\ row.invoice_count = Len(Filter(cache.ar_metrics, Same))
                          /\ row.total_due
                                 = SumWhere(cache.ar_metrics, "total_due", Same)
                          /\ row.retainage
                                 = SumWhere(cache.ar_metrics, "retainage", Same)
    /\ \A i \in 1..Len(cache.ap_metrics) :
          LET inv == cache.ap_metrics[i]
              Same(x) == vendor_key(x) = vendor_key(inv)
          IN  OfExcludedPm(inv) =>
                  \E r \in 1..Len(cache.ap_by_vendor) :
                      LET row == cache.ap_by_vendor[r]
                      IN  /\ row.vendor_name = vendor_key(inv)
                          /\ row.invoice_count = Len(Filter(cache.ap_metrics, Same))
                          /\ row.total_due
                                 = SumWhere(cache.ap_metrics, "remaining_balance", Same)
    /\ Get(input, "endpoint", "") = "/api/ar-aging" =>
          /\ output.totals.total_due
                 = SumWhere(cache.ar_metrics, "collectible", AskedOfArAging)
          /\ output.totals.retainage
                 = SumWhere(cache.ar_metrics, "retainage", AskedOfArAging)
          /\ \A i \in 1..Len(cache.ar_metrics) :
                LET inv == cache.ar_metrics[i]
                    Same(x) == /\ AskedOfArAging(x)
                               /\ ar_aging_customer(x) = ar_aging_customer(inv)
                IN  (OfExcludedPm(inv) /\ AskedOfArAging(inv)) =>
                        \E r \in 1..Len(output.customers) :
                            LET row == output.customers[r]
                            IN  /\ row.customer_name = ar_aging_customer(inv)
                                /\ row.total_due = SumWhere(cache.ar_metrics,
                                                            "collectible", Same)
                                /\ row.retainage = SumWhere(cache.ar_metrics,
                                                            "retainage", Same)
    /\ Get(input, "endpoint", "") = "/api/ap-aging" =>
          /\ output.totals.total_due
                 = SumWhere(ApAged(cache.ap_metrics), "amount_ex_retainage",
                            AskedOfApAging)
          /\ \A i \in 1..Len(cache.ap_metrics) :
                LET inv == cache.ap_metrics[i]
                    Same(x) == /\ AskedOfApAging(x)
                               /\ ap_aging_vendor(x) = ap_aging_vendor(inv)
                IN  (OfExcludedPm(inv) /\ AskedOfApAging(inv)) =>
                        \E r \in 1..Len(output.vendors) :
                            LET row == output.vendors[r]
                            IN  /\ row.vendor_name = ap_aging_vendor(inv)
                                /\ row.total_due
                                       = SumWhere(ApAged(cache.ap_metrics),
                                                  "amount_ex_retainage", Same)

\* C23 witness: the excluded PM has a job, an AR invoice and an AP invoice of
\* 400.00 to vendor V, who is also owed 600.00 on a job of another PM. No PM
\* row is the excluded PM's, and the AP aging view asked for without a filter
\* lists vendor V with 1000.00.
C23_Witness ==
    /\ \E j \in 1..Len(cache.jobs_metrics) :
          Contains(Lower(cache.jobs_metrics[j].project_manager), EXCLUDED_PM)
    /\ \E i \in 1..Len(cache.ar_metrics) : OfExcludedPm(cache.ar_metrics[i])
    /\ \E i \in 1..Len(cache.ap_metrics) :
          /\ OfExcludedPm(cache.ap_metrics[i])
          /\ cache.ap_metrics[i].remaining_balance = 400
    /\ Len(cache.pm_metrics) = 1
    /\ Get(input, "endpoint", "") = "/api/ap-aging"
    /\ input.pm = <<>> /\ input.search = <<>> /\ input.job = <<>>
    /\ output.count = 1
    /\ output.vendors[1].vendor_name = VendV
    /\ output.vendors[1].total_due = 1000
    /\ output.totals.total_due = 1000

-----------------------------------------------------------------------------
(* Properties of the order of the summary rows, checked under SpecSeq *)

NonIncreasing(rows, field) ==
    \A i \in 1..(Len(rows) - 1) : rows[i][field] >= rows[i + 1][field]

\* C24: after any refresh each summary collection is sorted in non-increasing
\* order of its primary monetary total: the PM rows by total_contract, the
\* customer rows by total_due, the vendor rows by total_due.
C24_SummariesSortedDescending ==
    /\ NonIncreasing(cache.pm_metrics, "total_contract")
    /\ NonIncreasing(cache.ar_by_customer, "total_due")
    /\ NonIncreasing(cache.ap_by_vendor, "total_due")

\* C24 witness: a refresh request read vendor V's invoice of 600.00 before
\* vendor W's of 900.00 and customer X's before customer Y's larger one, and
\* left W and Y in the first rows.
C24_Witness ==
    /\ started >= 1
    /\ resp.success
    /\ Len(cache.ap_metrics) = 2
    /\ cache.ap_metrics[1].vendor_name = VendV
    /\ cache.ap_metrics[1].remaining_balance = 600
    /\ cache.ap_metrics[2].remaining_balance = 900
    /\ Len(cache.ap_by_vendor) = 2
    /\ cache.ap_by_vendor[1].vendor_name = VendW
    /\ cache.ap_by_vendor[1].total_due > cache.ap_by_vendor[2].total_due
    /\ Len(cache.ar_by_customer) = 2
    /\ cache.ar_by_customer[1].customer_name = CustY
    /\ cache.ar_metrics[1].customer_name = CustX
    /\ Len(cache.pm_metrics) = 2
    /\ cache.pm_metrics[1].total_contract > cache.pm_metrics[2].total_contract

-----------------------------------------------------------------------------
(* Properties of the range filters, checked under SpecQuery *)

\* The days bounds a plan carries, each honoured when it is present.
WithinDaysBounds(filters, days) ==
    /\ Has(filters, "min_days") => days >= filters.min_days
    /\ Has(filters, "max_days") => days <= filters.max_days

InvoicesWithinBounds(records, filters) ==
    {i \in 1..Len(records) : WithinDaysBounds(filters, records[i].days_outstanding)}

\* C25: a range filter is honoured whenever the plan carries it, a bound of 0
\* included: for targets ar and ap every invoice the list verb returns and
\* counts has its days_outstanding within each bound of the plan.
C25_RangeFiltersHonoured ==
    (/\ plan # NotRun
     /\ Get(plan, "target_data", "") \in {"ar", "ap"}
     /\ Get(plan, "aggregation", "list") = "list") =>
        LET filters == Get(plan, "filters", <<>>)
            records == IF plan.target_data = "ar" THEN cache.ar_metrics
                       ELSE cache.ap_metrics
        IN  /\ \A i \in 1..Len(envelope.items) :
                  WithinDaysBounds(filters, envelope.items[i].days_outstanding)
            /\ envelope.total_count
                   <= Cardinality(InvoicesWithinBounds(records, filters))

\* The part of C25 that holds: a lower bound other than 0 is honoured on both
\* targets, and so is an upper bound other than 0 on target ar.
NonZeroBoundsHonoured ==
    (/\ plan # NotRun
     /\ Get(plan, "target_data", "") \in {"ar", "ap"}
     /\ Get(plan, "aggregation", "list") = "list") =>
        LET filters == Get(plan, "filters", <<>>)
        IN  \A i \in 1..Len(envelope.items) :
                /\ HasNumber(filters, "min_days") =>
                       envelope.items[i].days_outstanding >= filters.min_days
                /\ (plan.target_data = "ar" /\ HasNumber(filters, "max_days")) =>
                       envelope.items[i].days_outstanding <= filters.max_days

-----------------------------------------------------------------------------
(* Properties of the executor's averages, checked under SpecQuery *)

\* The PM rows with at least one job that is valid for profit.
PmsWithValidJobs(rows) ==
    LET HasValid(p) == p.jobs_valid_for_profit > 0
    IN  Filter(rows, HasValid)

\* C26: the executor's averages use the aggregators' denominators. For target
\* jobs, verb average on field margin, the average is the sum of margin over
\* the valid_for_profit jobs divided by their number, which is avg_margin of
\* get_jobs_summary over the same filtered jobs; for target pm_summary,
\* grand_avg_margin is the mean of the margins of the PMs that have a
\* valid_for_profit job.
C26_ExecutorAveragesUseValidJobs ==
    /\ (/\ plan # NotRun
        /\ Get(plan, "target_data", "") = "jobs"
        /\ Get(plan, "aggregation", "list") = "average"
        /\ ~Has(envelope, "error")
        /\ envelope.field = "margin") =>
           SameToOneDecimal(
               envelope.average,
               get_jobs_summary(jobs_matching(cache.jobs_metrics,
                                              Get(plan, "filters", <<>>)),
                                FALSE).avg_margin)
    /\ (/\ plan # NotRun
        /\ Get(plan, "target_data", "") = "pm_summary"
        /\ ~Has(envelope, "error")) =>
           LET Matches(p) ==
                   HasName(Get(plan, "filters", <<>>), "pm") =>
                       pm_matches(p.pm, plan.filters.pm)
               asked == Filter(pm_list_of(cache.pm_metrics), Matches)
           IN  envelope.grand_avg_margin = avg_margin_of(PmsWithValidJobs(asked))

-----------------------------------------------------------------------------
(* Properties of the AR totals, checked under SpecQuery *)

\* C27: for target ar the total_due of the sum verb (collectible + retainage)
\* is the sum of calculated_amount_due over the filtered invoices, which is the
\* total_due the list verb reports for the same filters; every cached AR
\* record has collectible + retainage = calculated_amount_due.
C27_ArSumMatchesList ==
    /\ \A i \in 1..Len(cache.ar_metrics) :
          cache.ar_metrics[i].collectible + cache.ar_metrics[i].retainage
              = cache.ar_metrics[i].calculated_amount_due
    /\ (/\ plan # NotRun
        /\ Get(plan, "target_data", "") = "ar"
        /\ Get(plan, "aggregation", "list") = "sum") =>
           LET filtered == ar_filtered(cache.ar_metrics, Get(plan, "filters", <<>>))
           IN  /\ envelope.total_due = SumField(filtered, "calc_due")
               /\ envelope.total_due = ar_list(filtered, limit_of(plan)).total_due

\* The part of C27 that holds: the two verbs agree on every invoice whose
\* retainage does not exceed its amount due.
ArSumMatchesListWithinDue ==
    (/\ plan # NotRun
     /\ Get(plan, "target_data", "") = "ar"
     /\ Get(plan, "aggregation", "list") = "sum") =>
        LET filtered == ar_filtered(cache.ar_metrics, Get(plan, "filters", <<>>))
        IN  (\A i \in 1..Len(filtered) : filtered[i].retainage <= filtered[i].calc_due)
                => envelope.total_due = ar_list(filtered, limit_of(plan)).total_due

-----------------------------------------------------------------------------
(* Properties of the aging buckets of the summaries, checked under SpecSeq *)

BucketsOf(row) ==
    row.current + row.days_31_60 + row.days_61_90 + row.days_90_plus

ArBucketsPartition(row) == BucketsOf(row) = row.collectible

ApBucketsPartition(row) == BucketsOf(row) = row.total_due - row.retainage

\* C28: in every customer row, every vendor row and the AR and AP summaries
\* the four aging buckets add up to the amount without retainage: collectible
\* for AR, total_due - retainage for AP; and the invoice_count values of the
\* rows add up to the number of cached records.
C28_BucketsPartitionAmounts ==
    resp.success =>
        /\ \A r \in 1..Len(cache.ar_by_customer) :
              ArBucketsPartition(cache.ar_by_customer[r])
        /\ ArBucketsPartition(get_ar_summary(cache.ar_metrics))
        /\ SumSeq(Map(cache.ar_by_customer, InvoiceCount)) = Len(cache.ar_metrics)
        /\ \A r \in 1..Len(cache.ap_by_vendor) :
              ApBucketsPartition(cache.ap_by_vendor[r])
        /\ ApBucketsPartition(get_ap_summary(cache.ap_metrics))
        /\ SumSeq(Map(cache.ap_by_vendor, InvoiceCount)) = Len(cache.ap_metrics)

\* The part of C28 that holds: the AR buckets, the counts, and the AP buckets
\* when no cached AP record has a negative retainage.
BucketsPartitionUnlessCredit ==
    resp.success =>
        /\ \A r \in 1..Len(cache.ar_by_customer) :
              ArBucketsPartition(cache.ar_by_customer[r])
        /\ ArBucketsPartition(get_ar_summary(cache.ar_metrics))
        /\ SumSeq(Map(cache.ar_by_customer, InvoiceCount)) = Len(cache.ar_metrics)
        /\ SumSeq(Map(cache.ap_by_vendor, InvoiceCount)) = Len(cache.ap_metrics)
        /\ (\A i \in 1..Len(cache.ap_metrics) : cache.ap_metrics[i].retainage >= 0) =>
              /\ \A r \in 1..Len(cache.ap_by_vendor) :
                    ApBucketsPartition(cache.ap_by_vendor[r])
              /\ ApBucketsPartition(get_ap_summary(cache.ap_metrics))

-----------------------------------------------------------------------------
(* Properties of the jobs listing, checked under SpecRead *)

\* C29: in the response of /api/metrics/jobs the summary describes the jobs
\* the listing is drawn from: for every combination of the pm, status,
\* customer, has_budget and exclude_josh filters, summary.total_jobs equals
\* total_count and the summary totals are the sums over the filtered jobs,
\* whatever the limit.
C29_SummaryDescribesListing ==
    Get(input, "endpoint", "") = "/api/metrics/jobs" =>
        LET listed == api_metrics_jobs_sorted(cache, input)
        IN  /\ output.total_count = Len(listed)
            /\ output.summary.total_jobs = output.total_count
            /\ output.summary.total_contract = SumField(listed, "contract")
            /\ output.summary.total_billed = SumField(listed, "billed")
            /\ output.summary.total_actual = SumField(listed, "actual_cost")

\* The part of C29 that holds: summary and listing agree when the request
\* carries no filter but the status A, and total_count does not depend on limit.
SummaryDescribesUnfilteredListing ==
    (/\ Get(input, "endpoint", "") = "/api/metrics/jobs"
     /\ input.pm = <<>> /\ input.customer = <<>> /\ input.has_budget = ""
     /\ ~input.exclude_josh /\ input.status \in {"", "A"}) =>
        LET listed == api_metrics_jobs_sorted(cache, input)
        IN  /\ output.total_count = Len(listed)
            /\ output.summary.total_jobs = output.total_count
            /\ output.summary.total_contract = SumField(listed, "contract")

-----------------------------------------------------------------------------
(* Properties of get_payments_data, checked under SpecPay *)

\* Thread t's call has returned.
PaymentsReturned(t) == pc[t] = "idle" /\ resp[t] # NoResponse

\* What holds of the cached object: it is assigned at most once, so a set
\* cache is never replaced; a call that began after it was set, and any call
\* that returns data loaded from the file, returns that one object.
PaymentsCachedOnce ==
    /\ origin <= 1
    /\ (cache # PaymentsNone) <=> (origin = 1)
    /\ \A t \in Threads :
          /\ before[t] # PaymentsNone => before[t] = cache
          /\ PaymentsReturned(t) =>
                /\ before[t] # PaymentsNone => resp[t] = cache
                /\ resp[t].id > 0 => resp[t] = cache

====
